---- MODULE Spec2Model ----
(***************************************************************************)
(* Model of materials_io.electron_microscopy.ElectronMicroscopyParser:     *)
(* the staged extraction of one decoded dataset into the canonical record. *)
(*                                                                         *)
(* Representation.                                                         *)
(*  - A text (Python str) is a string; searching, prefix removal, the      *)
(*    regular expressions and the parsing of numbers are computed          *)
(*    character by character.                                              *)
(*  - A number is kept in thousandths (fixed point): 200.0 is 200000.      *)
(*  - A nested mapping is a function from key paths to nodes.  Every       *)
(*    mapping, sequence and scalar below the root has its own entry; the   *)
(*    root mapping itself has none, so the empty mapping is the function   *)
(*    with the empty domain.                                               *)
(***************************************************************************)
EXTENDS Integers, Sequences, FiniteSets, TLC

VARIABLES
    pc,           \* position of the call inside _parse_file
    meta,         \* self.meta: the structured metadata tree
    raw_meta,     \* self.raw_meta: the vendor tag tree
    em,           \* self.em: the destination tree
    image,        \* self.image: <<>> when it has no shape, else <<shape>>
    inst,         \* self.inst
    inst_data,    \* self.inst_data: <<>> for None, else <<subtree>>
    tecnai_info,  \* self.tecnai_info: <<>> for None, else <<lines>>
    record,       \* the value returned by _parse_file
    raised,       \* the exception that left _parse_file, "" when none
    called,       \* history: the processors this call has run, in order
    hs_data,      \* what hs_load returned to this call
    calls,        \* history: the calls started on this parser
    other         \* the locals of a second, suspended call on this parser

vars == <<pc, meta, raw_meta, em, image, inst, inst_data, tecnai_info,
          record, raised, called, hs_data, calls, other>>

---------------------------------------------------------------------------
(* Nodes and trees *)

\* k: the Python type; n: the number (thousandths) or truth value;
\* s: the text of a str; l: the items of a list
MapNode == [k |-> "map", n |-> 0, s |-> "", l |-> <<>>]
NoneNode == [k |-> "none", n |-> 0, s |-> "", l |-> <<>>]
NumNode(x) == [k |-> "num", n |-> x, s |-> "", l |-> <<>>]
StrNode(t) == [k |-> "str", n |-> 0, s |-> t, l |-> <<>>]
ListNode(t) == [k |-> "list", n |-> 0, s |-> "", l |-> t]
BoolNode(b) == [k |-> "bool", n |-> IF b THEN 1 ELSE 0, s |-> "", l |-> <<>>]

EmptyTree == [p \in {} |-> MapNode]

IsPrefix(p, q) ==
    /\ Len(p) <= Len(q)
    /\ \A i \in 1..Len(p) : p[i] = q[i]

Drop(q, j) == [i \in 1..(Len(q) - j) |-> q[i + j]]

Prefixes(p) == {SubSeq(p, 1, i) : i \in 1..Len(p)}

\* the tree found at path p of tree t (p names a mapping of t)
Subtree(t, p) ==
    LET below == {q \in DOMAIN t : IsPrefix(p, q) /\ Len(q) > Len(p)}
    IN  [r \in {Drop(q, Len(p)) : q \in below} |-> t[p \o r]]

\* tree t with tree u placed at path p (d[p] = u), p at top level
Graft(t, p, u) ==
    LET keep == {q \in DOMAIN t : ~IsPrefix(p, q)}
        new == {p \o r : r \in DOMAIN u}
    IN  [q \in keep \cup {p} \cup new |->
            IF q = p THEN MapNode
            ELSE IF q \in new THEN u[Drop(q, Len(p))]
            ELSE t[q]]

\* the keys of the mapping at path p of tree t
Keys(t, p) == {q[Len(p) + 1] : q \in {r \in DOMAIN t : IsPrefix(p, r) /\ Len(r) = Len(p) + 1}}

\* Python's val is None or val == [] or val == {} for the value at path p
IsEmptyAt(t, p) ==
    \/ t[p].k = "none"
    \/ t[p].k = "list" /\ t[p].l = <<>>
    \/ t[p].k = "map" /\ Keys(t, p) = {}

---------------------------------------------------------------------------
(* Texts and numbers *)

Ch(x, i) == SubSeq(x, i, i)

Digits == "0123456789"

IsDigit(c) == \E d \in 1..10 : Ch(Digits, d) = c

DigitOf(c) == CHOOSE d \in 0..9 : Ch(Digits, d + 1) = c

AllDigits(x) == \A i \in 1..Len(x) : IsDigit(Ch(x, i))

RECURSIVE ParseNat(_)
ParseNat(x) ==
    IF Len(x) = 0 THEN 0
    ELSE ParseNat(SubSeq(x, 1, Len(x) - 1)) * 10 + DigitOf(Ch(x, Len(x)))

\* str.strip() for blanks
RECURSIVE Strip(_)
Strip(x) ==
    IF Len(x) > 0 /\ Ch(x, 1) = " " THEN Strip(SubSeq(x, 2, Len(x)))
    ELSE IF Len(x) > 0 /\ Ch(x, Len(x)) = " " THEN Strip(SubSeq(x, 1, Len(x) - 1))
    ELSE x

\* pat occurs in x at position i
At(x, i, pat) ==
    /\ i >= 1
    /\ i + Len(pat) - 1 <= Len(x)
    /\ SubSeq(x, i, i + Len(pat) - 1) = pat

\* Python's pat in x
Contains(x, pat) == \E i \in 1..(Len(x) - Len(pat) + 1) : At(x, i, pat)

\* str.replace(pat, "")
RECURSIVE Remove(_, _)
Remove(x, pat) ==
    IF Len(x) = 0 THEN x
    ELSE IF At(x, 1, pat) THEN Remove(SubSeq(x, Len(pat) + 1, Len(x)), pat)
    ELSE Ch(x, 1) \o Remove(SubSeq(x, 2, Len(x)), pat)

\* the first three decimals of the fraction digits f, as thousandths
Frac3(f) == ParseNat(SubSeq(f \o "000", 1, 3))

\* the body of a decimal literal: digits with at most one point
DecimalOK(b) ==
    LET dots == {i \in 1..Len(b) : Ch(b, i) = "."}
    IN  /\ Cardinality(dots) <= 1
        /\ \A i \in 1..Len(b) : IsDigit(Ch(b, i)) \/ i \in dots
        /\ Len(b) > Cardinality(dots)

DecimalVal(b) ==
    LET dots == {i \in 1..Len(b) : Ch(b, i) = "."}
        d == IF dots = {} THEN Len(b) + 1 ELSE CHOOSE i \in dots : TRUE
    IN  ParseNat(SubSeq(b, 1, d - 1)) * 1000 + Frac3(SubSeq(b, d + 1, Len(b)))

Signed(y) == Len(y) > 0 /\ Ch(y, 1) \in {"-", "+"}

Unsigned(y) == IF Signed(y) THEN SubSeq(y, 2, Len(y)) ELSE y

Sign(y) == IF Len(y) > 0 /\ Ch(y, 1) = "-" THEN -1 ELSE 1

\* float(x) for a str x: NoneNode stands for the ValueError
ParseFloat(x) ==
    LET y == Strip(x)
    IN  IF DecimalOK(Unsigned(y)) THEN NumNode(Sign(y) * DecimalVal(Unsigned(y)))
        ELSE NoneNode

\* int(x) for a str x: NoneNode stands for the ValueError
ParseInt(x) ==
    LET y == Strip(x)
        b == Unsigned(y)
    IN  IF Len(b) > 0 /\ AllDigits(b) THEN NumNode(Sign(y) * ParseNat(b) * 1000)
        ELSE NoneNode

\* the fraction digits of str(float): no trailing zero but the first
RECURSIVE FracText(_)
FracText(f) ==
    IF Len(f) > 1 /\ Ch(f, Len(f)) = "0" THEN FracText(SubSeq(f, 1, Len(f) - 1))
    ELSE f

Abs(n) == IF n < 0 THEN -n ELSE n

Pad3(f) == SubSeq("000", 1, 3 - Len(f)) \o f

\* str(x) for a float x
NumText(n) ==
    (IF n < 0 THEN "-" ELSE "") \o ToString(Abs(n) \div 1000) \o "."
        \o FracText(Pad3(ToString(Abs(n) % 1000)))

RECURSIVE Chars(_)
Chars(x) == IF Len(x) = 0 THEN <<>> ELSE <<Ch(x, 1)>> \o Chars(SubSeq(x, 2, Len(x)))

RECURSIVE SetToSeq(_)
SetToSeq(S) ==
    IF S = {} THEN <<>>
    ELSE LET e == CHOOSE e \in S : TRUE IN <<e>> \o SetToSeq(S \ {e})

---------------------------------------------------------------------------
(* Casts and conversions: the cast_fn and conv_fn of the mapping rules *)

\* int(x) for a float x truncates towards zero
Trunc(n) == IF n >= 0 THEN n - (n % 1000) ELSE -((-n) - ((-n) % 1000))

\* bool(x)
Truthy(t, p) ==
    CASE t[p].k = "num" -> t[p].n # 0
      [] t[p].k = "bool" -> t[p].n # 0
      [] t[p].k = "str" -> t[p].s # ""
      [] t[p].k = "list" -> t[p].l # <<>>
      [] t[p].k = "map" -> Keys(t, p) # {}
      [] OTHER -> FALSE

\* cast_fn applied to the value at path p of tree t; NoneNode stands for
\* the exception of a cast that fails
Cast(c, t, p) ==
    LET v == t[p]
    IN  CASE c = "str" ->
                 (CASE v.k = "str" -> v
                    [] v.k = "num" -> StrNode(NumText(v.n))
                    [] v.k = "bool" -> StrNode(IF v.n = 1 THEN "True" ELSE "False")
                    [] v.k = "list" -> StrNode("[...]")
                    [] v.k = "map" -> StrNode("{...}")
                    [] OTHER -> StrNode("None"))
          [] c = "float" ->
                 (CASE v.k = "num" -> v
                    [] v.k = "bool" -> NumNode(v.n * 1000)
                    [] v.k = "str" -> ParseFloat(v.s)
                    [] OTHER -> NoneNode)
          [] c = "int" ->
                 (CASE v.k = "num" -> NumNode(Trunc(v.n))
                    [] v.k = "bool" -> NumNode(v.n * 1000)
                    [] v.k = "str" -> ParseInt(v.s)
                    [] OTHER -> NoneNode)
          [] c = "list" ->
                 (CASE v.k = "list" -> v
                    [] v.k = "str" -> ListNode(Chars(v.s))
                    [] v.k = "map" -> ListNode(SetToSeq(Keys(t, p)))
                    [] OTHER -> NoneNode)
          [] c = "bool" -> BoolNode(Truthy(t, p))
          \* lambda s: float(s.replace(' mm', ''))
          [] c = "aperture_label" ->
                 (CASE v.k = "str" -> ParseFloat(Remove(v.s, " mm"))
                    [] OTHER -> NoneNode)
          [] OTHER -> v

\* conv_fn applied to a cast number
Conv(f, v) ==
    CASE f = "div1000" -> NumNode(v.n \div 1000)
      [] f = "mul1000" -> NumNode(v.n * 1000)
      [] OTHER -> v

---------------------------------------------------------------------------
(* materials_io.utils: the path accessor and the mapping engine *)

\* units=None, cast_fn=None, conv_fn=None
None == "None"

\* get_nested_dict_value_by_path(tree, path, cast): NoneNode is None.
\* A mapping found at the path is returned as its MapNode.
get_val(t, path, cast) ==
    IF path \notin DOMAIN t \/ t[path].k = "none" THEN NoneNode
    ELSE IF cast = None THEN t[path]
    ELSE Cast(cast, t, path)

\* the entries of a leaf written at path: bare, or {value, unit}
Leaf(path, value, units) ==
    IF units = None THEN (path :> value)
    ELSE (path :> MapNode) @@ ((path \o <<"value">>) :> value)
             @@ ((path \o <<"unit">>) :> StrNode(units))

\* path is populated in tree t: present and not empty
Populated(t, path) == path \in DOMAIN t /\ ~IsEmptyAt(t, path)

\* set_nested_dict_value_with_units(nest_dict, path, value, units, override)
set_val_units(t, path, value, units, override) ==
    IF Populated(t, path) /\ ~override THEN t
    ELSE LET keep == {q \in DOMAIN t : ~IsPrefix(path, q)}
             leaf == Leaf(path, value, units)
             made == (Prefixes(path) \ {path}) \ keep
         IN  [q \in keep \cup made \cup DOMAIN leaf |->
                 IF q \in DOMAIN leaf THEN leaf[q]
                 ELSE IF q \in made THEN MapNode
                 ELSE t[q]]

\* one MappingElements record; dest_dict is self.em in every rule
MappingElements(source_dict, source_path, dest_path, cast_fn, units, conv_fn, override) ==
    [source_dict |-> source_dict, source_path |-> source_path,
     dest_path |-> dest_path, cast_fn |-> cast_fn, units |-> units,
     conv_fn |-> conv_fn, override |-> override]

\* the value a rule reads: cast, then converted; NoneNode when the source
\* is not found or the cast fails
Fetch(m) ==
    LET v == get_val(m.source_dict, m.source_path, m.cast_fn)
    IN  IF v = NoneNode THEN NoneNode ELSE Conv(m.conv_fn, v)

\* one rule applied to the destination tree
map_one(m, dest) ==
    IF Fetch(m) = NoneNode THEN dest
    ELSE set_val_units(dest, m.dest_path, Fetch(m), m.units, m.override)

\* map_dict_values(mapping): the rules applied in list order
RECURSIVE map_from(_, _, _)
map_from(mapping, i, dest) ==
    IF i > Len(mapping) THEN dest
    ELSE map_from(mapping, i + 1, map_one(mapping[i], dest))

map_dict_values(mapping, dest) == map_from(mapping, 1, dest)

---------------------------------------------------------------------------
(* Stage A: _process_hs_data and _process_hs_detectors *)

\* an instrument class that knows scanning microscopes only
InstOf_SEM_only(m) ==
    IF "SEM" \in Keys(m, <<"Acquisition_instrument">>) THEN "SEM" ELSE "None"

\* an instrument class that tests TEM before SEM
InstOf_TEM_first(m) ==
    IF "TEM" \in Keys(m, <<"Acquisition_instrument">>) THEN "TEM"
    ELSE IF "SEM" \in Keys(m, <<"Acquisition_instrument">>) THEN "SEM"
    ELSE "None"

\* the instrument class
InstOf(m) ==
    IF "SEM" \in Keys(m, <<"Acquisition_instrument">>) THEN "SEM"
    ELSE IF "TEM" \in Keys(m, <<"Acquisition_instrument">>) THEN "TEM"
    ELSE "None"

\* get_val(self.meta, ('Acquisition_instrument', self.inst)) is not None
HasInstData(m) == get_val(m, <<"Acquisition_instrument", InstOf(m)>>, None) # NoneNode

InstData(m) == Subtree(m, <<"Acquisition_instrument", InstOf(m)>>)

\* the mapping of the instrument subtree
hs_instrument_mapping(source) == <<
    MappingElements(source, <<"acquisition_mode">>,
        <<"General_EM", "acquisition_mode">>, "str", None, None, FALSE),
    MappingElements(source, <<"beam_current">>,
        <<"General_EM", "beam_current">>, "float", "NanoA", None, FALSE),
    MappingElements(source, <<"beam_energy">>,
        <<"General_EM", "beam_energy">>, "float", "KiloEV", None, FALSE),
    MappingElements(source, <<"convergence_angle">>,
        <<"General_EM", "convergence_angle">>, "float", "MilliRAD", None, FALSE),
    MappingElements(source, <<"magnification">>,
        <<"General_EM", "magnification_indicated">>, "float", "UNITLESS", None, FALSE),
    MappingElements(source, <<"microscope">>,
        <<"General_EM", "microscope_name">>, "str", None, None, FALSE),
    MappingElements(source, <<"probe_area">>,
        <<"General_EM", "probe_area">>, "float", "NanoM2", None, FALSE),
    MappingElements(source, <<"Stage", "rotation">>,
        <<"General_EM", "stage_position", "rotation">>, "float", "DEG", None, FALSE),
    MappingElements(source, <<"Stage", "tilt_alpha">>,
        <<"General_EM", "stage_position", "tilt_alpha">>, "float", "DEG", None, FALSE),
    MappingElements(source, <<"Stage", "tilt_beta">>,
        <<"General_EM", "stage_position", "tilt_beta">>, "float", "DEG", None, FALSE),
    MappingElements(source, <<"Stage", "x">>,
        <<"General_EM", "stage_position", "x">>, "float", "MilliM", None, FALSE),
    MappingElements(source, <<"Stage", "y">>,
        <<"General_EM", "stage_position", "y">>, "float", "MilliM", None, FALSE),
    MappingElements(source, <<"Stage", "z">>,
        <<"General_EM", "stage_position", "z">>, "float", "MilliM", None, FALSE),
    MappingElements(source, <<"camera_length">>,
        <<"TEM", "camera_length">>, "float", "MilliM", None, FALSE),
    MappingElements(source, <<"working_distance">>,
        <<"SEM", "working_distance">>, "float", "MilliM", None, FALSE) >>

\* the rules added when the instrument subtree has a Detector node
hs_detector_node_mapping(detector_node) == <<
    MappingElements(detector_node, <<"EDS", "azimuth_angle">>,
        <<"EDS", "azimuth_angle">>, "float", "DEG", None, FALSE),
    MappingElements(detector_node, <<"EDS", "elevation_angle">>,
        <<"EDS", "elevation_angle">>, "float", "DEG", None, FALSE),
    MappingElements(detector_node, <<"EDS", "energy_resolution_MnKa">>,
        <<"EDS", "energy_resolution_MnKa">>, "float", "EV", None, FALSE),
    MappingElements(detector_node, <<"EDS", "live_time">>,
        <<"EDS", "live_time">>, "float", "SEC", None, FALSE),
    MappingElements(detector_node, <<"EDS", "real_time">>,
        <<"EDS", "real_time">>, "float", "SEC", None, FALSE),
    MappingElements(detector_node, <<"EELS", "aperture_size">>,
        <<"EELS", "aperture_size">>, "float", "MilliM", None, FALSE),
    MappingElements(detector_node, <<"EELS", "collection_angle">>,
        <<"EELS", "collection_angle">>, "float", "MilliRAD", None, FALSE),
    MappingElements(detector_node, <<"EELS", "dwell_time">>,
        <<"General_EM", "dwell_time">>, "float", "SEC", None, FALSE),
    MappingElements(detector_node, <<"EELS", "exposure">>,
        <<"General_EM", "exposure_time">>, "float", "SEC", None, FALSE),
    MappingElements(detector_node, <<"EELS", "frame_number">>,
        <<"EELS", "number_of_samples">>, "int", "NUM", None, FALSE),
    MappingElements(detector_node, <<"EELS", "spectrometer">>,
        <<"EELS", "spectrometer_name">>, "str", None, None, FALSE) >>

\* the mapping list of _process_hs_detectors
hs_detectors_mapping(source) ==
    <<MappingElements(source, <<"detector_type">>,
        <<"General_EM", "detector_name">>, "str", None, None, FALSE)>>
    \o (IF get_val(source, <<"Detector">>, None) # NoneNode
        THEN hs_detector_node_mapping(Subtree(source, <<"Detector">>))
        ELSE <<>>)

\* the mapping of the whole structured metadata: elements and General
hs_general_mapping(source) == <<
    MappingElements(source, <<"Sample", "elements">>,
        <<"General_EM", "elements">>, "list", None, None, FALSE),
    MappingElements(source, <<"General", "date">>,
        <<"General", "date">>, "str", None, None, FALSE),
    MappingElements(source, <<"General", "doi">>,
        <<"General", "doi">>, "str", None, None, FALSE),
    MappingElements(source, <<"General", "original_filename">>,
        <<"General", "original_filename">>, "str", None, None, FALSE),
    MappingElements(source, <<"General", "notes">>,
        <<"General", "notes">>, "str", None, None, FALSE),
    MappingElements(source, <<"General", "time">>,
        <<"General", "time">>, "str", None, None, FALSE),
    MappingElements(source, <<"General", "time_zone">>,
        <<"General", "time_zone">>, "str", None, None, FALSE),
    MappingElements(source, <<"General", "title">>,
        <<"General", "title">>, "str", None, None, FALSE) >>

\* every rule _process_hs_data applies, in the order it applies them
process_hs_data_rules(m) ==
    (IF HasInstData(m)
     THEN hs_instrument_mapping(InstData(m)) \o hs_detectors_mapping(InstData(m))
     ELSE <<>>)
    \o hs_general_mapping(m)

---------------------------------------------------------------------------
(* Stage B: _dm3_general_info *)

ImageTags == <<"ImageList", "TagGroup0", "ImageTags">>

\* __get_dm3_tag_pre_path: the root of the DigitalMicrograph tags
get_dm3_tag_pre_path(raw) ==
    IF get_val(raw, ImageTags \o <<"plane info">>, None) # NoneNode
    THEN ImageTags \o <<"plane info", "TagGroup0", "source tags">>
    ELSE ImageTags

\* the "Microscope Info" rules ("Emission Current (uA)" stands for the
\* tag spelled with the micro sign)
dm3_microscope_info_mapping(raw, base) == <<
    MappingElements(raw, base \o <<"Indicated Magnification">>,
        <<"General_EM", "magnification_indicated">>, "float", "UNITLESS", None, FALSE),
    MappingElements(raw, base \o <<"Actual Magnification">>,
        <<"General_EM", "magnification_actual">>, "float", "UNITLESS", None, FALSE),
    MappingElements(raw, base \o <<"Cs(mm)">>,
        <<"TEM", "spherical_aberration_coefficient">>, "float", "MilliM", None, FALSE),
    MappingElements(raw, base \o <<"STEM Camera Length">>,
        <<"TEM", "camera_length">>, "float", "MilliM", None, FALSE),
    MappingElements(raw, base \o <<"Operation Mode">>,
        <<"TEM", "operation_mode">>, "str", None, None, FALSE),
    MappingElements(raw, base \o <<"Imaging Mode">>,
        <<"TEM", "imaging_mode">>, "str", None, None, FALSE),
    MappingElements(raw, base \o <<"Illumination Mode">>,
        <<"TEM", "illumination_mode">>, "str", None, None, FALSE),
    MappingElements(raw, base \o <<"Microscope">>,
        <<"General_EM", "microscope_name">>, "str", None, None, FALSE),
    MappingElements(raw, base \o <<"Stage Position", "Stage X">>,
        <<"General_EM", "stage_position", "x">>, "float", "MilliM", "div1000", FALSE),
    MappingElements(raw, base \o <<"Stage Position", "Stage Y">>,
        <<"General_EM", "stage_position", "y">>, "float", "MilliM", "div1000", FALSE),
    MappingElements(raw, base \o <<"Stage Position", "Stage Z">>,
        <<"General_EM", "stage_position", "z">>, "float", "MilliM", "div1000", FALSE),
    MappingElements(raw, base \o <<"Stage Position", "Stage Alpha">>,
        <<"General_EM", "stage_position", "tilt_alpha">>, "float", "DEG", None, FALSE),
    MappingElements(raw, base \o <<"Stage Position", "Stage Beta">>,
        <<"General_EM", "stage_position", "tilt_beta">>, "float", "DEG", None, FALSE),
    MappingElements(raw, base \o <<"Emission Current (uA)">>,
        <<"General_EM", "emission_current">>, "float", "MicroA", None, FALSE) >>

\* the accelerating voltage rule with a threshold that 1000 does not reach
dm3_voltage_mapping_above(raw, base) ==
    LET voltage == get_val(raw, base \o <<"Voltage">>, "float")
    IN  IF voltage # NoneNode
        THEN <<MappingElements(raw, base \o <<"Voltage">>,
                   <<"General_EM", "accelerating_voltage">>, "float",
                   IF voltage.n > 1000 * 1000 THEN "KiloEV" ELSE "EV",
                   IF voltage.n > 1000 * 1000 THEN "div1000" ELSE None,
                   FALSE)>>
        ELSE <<>>

\* the accelerating voltage rule, added when the voltage casts to a float
dm3_voltage_mapping(raw, base) ==
    LET voltage == get_val(raw, base \o <<"Voltage">>, "float")
    IN  IF voltage # NoneNode
        THEN <<MappingElements(raw, base \o <<"Voltage">>,
                   <<"General_EM", "accelerating_voltage">>, "float",
                   IF voltage.n >= 1000 * 1000 THEN "KiloEV" ELSE "EV",
                   IF voltage.n >= 1000 * 1000 THEN "div1000" ELSE None,
                   FALSE)>>
        ELSE <<>>

\* the Session Info rules with the override flag set on the microscope rule
dm3_session_info_mapping_override(raw, base) == <<
    MappingElements(raw, base \o <<"Detector">>,
        <<"General_EM", "detector_name">>, "str", None, None, FALSE),
    MappingElements(raw, base \o <<"Microscope">>,
        <<"General_EM", "microscope_name">>, "str", None, None, TRUE) >>

\* the Session Info rules with the microscope written below raw_metadata
dm3_session_info_mapping_into_raw(raw, base) == <<
    MappingElements(raw, base \o <<"Detector">>,
        <<"General_EM", "detector_name">>, "str", None, None, FALSE),
    MappingElements(raw, base \o <<"Microscope">>,
        <<"raw_metadata", "microscope_name">>, "str", None, None, FALSE) >>

dm3_session_info_mapping(raw, base) == <<
    MappingElements(raw, base \o <<"Detector">>,
        <<"General_EM", "detector_name">>, "str", None, None, FALSE),
    MappingElements(raw, base \o <<"Microscope">>,
        <<"General_EM", "microscope_name">>, "str", None, None, FALSE) >>

dm3_meta_data_mapping(raw, base) == <<
    MappingElements(raw, base \o <<"Acquisition Mode">>,
        <<"TEM", "acquisition_mode">>, "str", None, None, FALSE),
    MappingElements(raw, base \o <<"Format">>,
        <<"TEM", "acquisition_format">>, "str", None, None, FALSE),
    MappingElements(raw, base \o <<"Signal">>,
        <<"TEM", "acquisition_signal">>, "str", None, None, FALSE),
    MappingElements(raw, base \o <<"Experiment keywords", "TagGroup1", "Label">>,
        <<"TEM", "acquisition_signal">>, "str", None, None, FALSE) >>

dm3_misc_mapping(raw, base) == <<
    MappingElements(raw, base \o <<"Acquisition", "Device", "Name">>,
        <<"TEM", "acquisition_device">>, "str", None, None, FALSE),
    MappingElements(raw, base \o <<"DataBar", "Device Name">>,
        <<"TEM", "acquisition_device">>, "str", None, None, FALSE),
    MappingElements(raw, base \o <<"Acquisition", "Parameters", "High Level", "Exposure (s)">>,
        <<"General_EM", "exposure_time">>, "float", "SEC", None, FALSE),
    MappingElements(raw, base \o <<"DataBar", "Exposure Time (s)">>,
        <<"General_EM", "exposure_time">>, "float", "SEC", None, FALSE),
    MappingElements(raw, base \o <<"GMS Version", "Created">>,
        <<"General_EM", "acquisition_software_version">>, "str", None, None, FALSE) >>

\* the mapping list of _dm3_general_info
dm3_general_mapping(raw) ==
    LET pre == get_dm3_tag_pre_path(raw)
    IN  dm3_microscope_info_mapping(raw, pre \o <<"Microscope Info">>)
        \o dm3_voltage_mapping(raw, pre \o <<"Microscope Info">>)
        \o dm3_session_info_mapping(raw, pre \o <<"Session Info">>)
        \o dm3_meta_data_mapping(raw, pre \o <<"Meta Data">>)
        \o dm3_misc_mapping(raw, pre)

\* the acquisition software name, set when the selected root is present
dm3_software_name_at_root(raw, dest) ==
    IF get_val(raw, get_dm3_tag_pre_path(raw), None) # NoneNode
    THEN set_val_units(dest, <<"General_EM", "acquisition_software_name">>,
                       StrNode("DigitalMicrograph"), None, FALSE)
    ELSE dest

\* the acquisition software name, set when the file has DigitalMicrograph tags
dm3_software_name(raw, dest) ==
    IF get_val(raw, ImageTags, None) # NoneNode
    THEN set_val_units(dest, <<"General_EM", "acquisition_software_name">>,
                       StrNode("DigitalMicrograph"), None, FALSE)
    ELSE dest

---------------------------------------------------------------------------
(* Stage C: _dm3_eels_info and _dm3_eds_info *)

dm3_eels_basic_mapping(raw, base) == <<
    MappingElements(raw, base \o <<"Acquisition", "Exposure (s)">>,
        <<"General_EM", "exposure_time">>, "float", "SEC", None, FALSE),
    MappingElements(raw, base \o <<"Acquisition", "Integration time (s)">>,
        <<"EELS", "integration_time">>, "float", "SEC", None, FALSE),
    MappingElements(raw, base \o <<"Acquisition", "Number of frames">>,
        <<"EELS", "number_of_samples">>, "int", "NUM", None, FALSE),
    MappingElements(raw, base \o <<"Experimental Conditions", "Collection semi-angle (mrad)">>,
        <<"EELS", "collection_angle">>, "float", "MilliRAD", None, FALSE),
    MappingElements(raw, base \o <<"Experimental Conditions", "Convergence semi-angle (mrad)">>,
        <<"General_EM", "convergence_angle">>, "float", "MilliRAD", None, FALSE) >>

\* a location that prefers the 'EELS Spectrometer' block
spect_path_other_first(raw, pre_path) ==
    IF get_val(raw, pre_path \o <<"EELS Spectrometer">>, None) # NoneNode
    THEN pre_path \o <<"EELS Spectrometer">>
    ELSE pre_path \o <<"EELS", "Acquisition", "Spectrometer">>

\* the location of the spectrometer block
spect_path(raw, pre_path) ==
    IF get_val(raw, pre_path \o <<"EELS", "Acquisition", "Spectrometer">>, None) # NoneNode
    THEN pre_path \o <<"EELS", "Acquisition", "Spectrometer">>
    ELSE pre_path \o <<"EELS Spectrometer">>

dm3_eels_spectrometer_mapping(raw, sp) == <<
    MappingElements(raw, sp \o <<"Aperture label">>,
        <<"EELS", "aperture_size">>, "aperture_label", "MilliM", None, FALSE),
    MappingElements(raw, sp \o <<"Dispersion (eV/ch)">>,
        <<"EELS", "dispersion_per_channel">>, "float", "EV", None, FALSE),
    MappingElements(raw, sp \o <<"Energy loss (eV)">>,
        <<"EELS", "energy_loss_offset">>, "float", "EV", None, FALSE),
    MappingElements(raw, sp \o <<"Instrument name">>,
        <<"EELS", "spectrometer_name">>, "str", None, None, FALSE),
    MappingElements(raw, sp \o <<"Drift tube voltage (V)">>,
        <<"EELS", "drift_tube_voltage">>, "float", "V", None, FALSE),
    MappingElements(raw, sp \o <<"Drift tube enabled">>,
        <<"EELS", "drift_tube_enabled">>, "bool", None, None, FALSE),
    MappingElements(raw, sp \o <<"Prism offset (V)">>,
        <<"EELS", "prism_shift_voltage">>, "float", "V", None, FALSE),
    MappingElements(raw, sp \o <<"Prism offset enabled ">>,
        <<"EELS", "prism_shift_enabled">>, "bool", None, None, FALSE),
    MappingElements(raw, sp \o <<"Slit width (eV)">>,
        <<"EELS", "filter_slit_width">>, "float", "EV", None, FALSE),
    MappingElements(raw, sp \o <<"Slit inserted">>,
        <<"EELS", "filter_slit_inserted">>, "bool", None, None, FALSE) >>

\* the mapping list of _dm3_eels_info
dm3_eels_mapping(raw) ==
    LET pre_path == get_dm3_tag_pre_path(raw)
    IN  dm3_eels_basic_mapping(raw, pre_path \o <<"EELS">>)
        \o dm3_eels_spectrometer_mapping(raw, spect_path(raw, pre_path))

\* the mapping list of _dm3_eds_info
dm3_eds_rules(raw, base) == <<
    MappingElements(raw, base \o <<"Detector Info", "Azimuthal angle">>,
        <<"EDS", "azimuth_angle">>, "float", "DEG", None, FALSE),
    MappingElements(raw, base \o <<"Detector Info", "Detector type">>,
        <<"EDS", "detector_type">>, "str", None, None, FALSE),
    MappingElements(raw, base \o <<"Acquisition", "Dispersion (eV)">>,
        <<"EDS", "dispersion_per_channel">>, "float", "EV", None, FALSE),
    MappingElements(raw, base \o <<"Detector Info", "Elevation angle">>,
        <<"EDS", "elevation_angle">>, "float", "DEG", None, FALSE),
    MappingElements(raw, base \o <<"Detector Info", "Incidence angle">>,
        <<"EDS", "incidence_angle">>, "float", "DEG", None, FALSE),
    MappingElements(raw, base \o <<"Live time">>,
        <<"EDS", "live_time">>, "float", "SEC", None, FALSE),
    MappingElements(raw, base \o <<"Real time">>,
        <<"EDS", "real_time">>, "float", "SEC", None, FALSE),
    MappingElements(raw, base \o <<"Detector Info", "Solid angle">>,
        <<"EDS", "solid_angle">>, "float", "SR", None, FALSE),
    MappingElements(raw, base \o <<"Detector Info", "Stage tilt">>,
        <<"EDS", "stage_tilt">>, "float", "DEG", None, FALSE) >>

\* the EDS rules with one more, which writes the EDS dispersion over the
\* EELS dispersion
dm3_eds_mapping_over_eels(raw) ==
    dm3_eds_rules(raw, get_dm3_tag_pre_path(raw) \o <<"EDS">>)
    \o <<MappingElements(raw,
            get_dm3_tag_pre_path(raw) \o <<"EDS", "Acquisition", "Dispersion (eV)">>,
            <<"EELS", "dispersion_per_channel">>, "float", "EV", None, TRUE)>>

dm3_eds_mapping(raw) == dm3_eds_rules(raw, get_dm3_tag_pre_path(raw) \o <<"EDS">>)

---------------------------------------------------------------------------
(* Stage D: _dm3_tecnai_info *)

\* the delimiter of the Tecnai string (the line separator U+2028 in the source)
delimiter == "\n"

\* str.split(d) for a one-character d
RECURSIVE Split(_, _)
Split(x, d) ==
    LET cuts == {i \in 1..Len(x) : Ch(x, i) = d}
    IN  IF cuts = {} THEN <<x>>
        ELSE LET c == CHOOSE i \in cuts : \A j \in cuts : i <= j
             IN  <<SubSeq(x, 1, c - 1)>> \o Split(SubSeq(x, c + 1, Len(x)), d)

\* __find_val: the first line that contains s_to_find, with s_to_find removed
\* from its start; NoneNode when no line contains it
find_val(s_to_find, list_to_search) ==
    LET res == SelectSeq(list_to_search, LAMBDA x : Contains(x, s_to_find))
    IN  IF Len(res) > 0
        THEN IF At(res[1], 1, s_to_find)
             THEN StrNode(SubSeq(res[1], Len(s_to_find) + 1, Len(res[1])))
             ELSE StrNode(res[1])
        ELSE NoneNode

\* the character classes of the regular expressions
InClass(cls, c) ==
    CASE cls = "digits" -> IsDigit(c)                       \* \d
      [] cls = "digits_dots" -> IsDigit(c) \/ c \in {"|", "."}   \* [\d|\.]
      [] OTHER -> FALSE

\* the position after the longest run of cls characters of x that starts at j
RECURSIVE RunEnd(_, _, _)
RunEnd(x, j, cls) ==
    IF j <= Len(x) /\ InClass(cls, Ch(x, j)) THEN RunEnd(x, j + 1, cls) ELSE j

\* the regular expressions of the source are all of the shape pre(group)post,
\* the group being \d*, [\d|\.]* or .*
Regex(pre, cls, post) == [pre |-> pre, cls |-> cls, post |-> post]

\* where the group ends when the expression matches x from position i, 0 when
\* it does not match from there
GroupEnd(re, x, i) ==
    LET g == i + Len(re.pre)
    IN  IF ~At(x, i, re.pre) THEN 0
        ELSE IF re.cls = "any"
        THEN LET ends == {j \in g..(Len(x) + 1) : At(x, j, re.post)}
             IN  IF ends = {} THEN 0
                 ELSE CHOOSE j \in ends : \A e \in ends : e <= j
        ELSE IF At(x, RunEnd(x, g, re.cls), re.post) THEN RunEnd(x, g, re.cls)
        ELSE 0

\* re.compile(regex).search(x)[1]: NoneNode when nothing matches
Search(re, x) ==
    LET starts == {i \in 1..(Len(x) + 1) : GroupEnd(re, x, i) # 0}
    IN  IF starts = {} THEN NoneNode
        ELSE LET i == CHOOSE a \in starts : \A b \in starts : a <= b
             IN  StrNode(SubSeq(x, i + Len(re.pre), GroupEnd(re, x, i) - 1))

\* __extract_val raises TypeError when str_to_search is None
extract_raises(str_to_search) == str_to_search = NoneNode

\* __extract_val(regex, str_to_search) for a str
extract_val(re, str_to_search) == Search(re, str_to_search.s)

\* re.findall(r' (-?\d*\.\d*) <unit>', x), from position i on
RECURSIVE FindAll(_, _, _)
FindAll(x, i, unit) ==
    IF i > Len(x) THEN <<>>
    ELSE LET g == i + 1
             d == IF At(x, g, "-") THEN g + 1 ELSE g
             e1 == RunEnd(x, d, "digits")
             e2 == RunEnd(x, e1 + 1, "digits")
         IN  IF At(x, i, " ") /\ At(x, e1, ".") /\ At(x, e2, " " \o unit)
             THEN <<SubSeq(x, g, e2 - 1)>> \o FindAll(x, e2 + Len(unit) + 1, unit)
             ELSE FindAll(x, i + 1, unit)

path_to_tecnai == ImageTags \o <<"Tecnai", "Microscope Info">>

\* a one-key source dictionary built for one rule
Dict1(key, value) == (<<key>> :> value)

\* the Mode line the five Mode rules search
ModeLine(lines) == find_val("Mode ", lines)

\* "we override existing values since Tecnai info is more specific"
tecnai_override_off == FALSE

tecnai_override == TRUE

\* the rules built from the lines of the Tecnai string
tecnai_base_mapping(lines) == <<
    MappingElements(Dict1("Microscope_Name", find_val("Microscope ", lines)),
        <<"Microscope_Name">>,
        <<"General_EM", "microscope_name">>, "str", None, None, tecnai_override),
    MappingElements(Dict1("Extractor_Voltage",
            extract_val(Regex("Extr volt ", "digits", " V"), find_val("Extr volt ", lines))),
        <<"Extractor_Voltage">>,
        <<"TEM", "extractor_voltage">>, "int", "V", None, tecnai_override),
    MappingElements(Dict1("Emission_Current",
            extract_val(Regex("Emission ", "digits_dots", "uA"), find_val("Emission ", lines))),
        <<"Emission_Current">>,
        <<"General_EM", "emission_current">>, "float", "MicroA", None, tecnai_override),
    MappingElements(Dict1("Operation_Mode",
            extract_val(Regex("", "any", " Defocus"), ModeLine(lines))),
        <<"Operation_Mode">>,
        <<"TEM", "operation_mode">>, "str", None, None, tecnai_override),
    MappingElements(Dict1("Defocus",
            extract_val(Regex("Defocus (um) ", "any", " Magn"), ModeLine(lines))),
        <<"Defocus">>,
        <<"TEM", "defocus">>, "float", "MicroM", None, tecnai_override),
    MappingElements(Dict1("Defocus",
            extract_val(Regex("Defocus ", "digits_dots", " CL"), ModeLine(lines))),
        <<"Defocus">>,
        <<"TEM", "defocus">>, "float", "MicroM", None, tecnai_override),
    MappingElements(Dict1("Magnification",
            extract_val(Regex("Magn ", "digits", "x"), ModeLine(lines))),
        <<"Magnification">>,
        <<"General_EM", "magnification_indicated">>, "int", "UNITLESS", None, tecnai_override),
    MappingElements(Dict1("Camera_Length",
            extract_val(Regex("CL ", "any", "m"), ModeLine(lines))),
        <<"Camera_Length">>,
        <<"TEM", "camera_length">>, "float", "MilliM", "mul1000", tecnai_override),
    MappingElements(Dict1("Spot_Size", find_val("Spot ", lines)),
        <<"Spot_Size">>,
        <<"TEM", "spot_size">>, "int", "UNITLESS", None, tecnai_override) >>

\* building the base rules raises TypeError
tecnai_base_raises(lines) ==
    \/ extract_raises(find_val("Extr volt ", lines))
    \/ extract_raises(find_val("Emission ", lines))
    \/ extract_raises(ModeLine(lines))

\* if stage_vals: the Stage line is found and is not the empty text
HasStage(lines) ==
    find_val("Stage", lines) # NoneNode /\ find_val("Stage", lines).s # ""

StageUm(lines) == FindAll(find_val("Stage", lines).s, 1, "um")

StageDeg(lines) == FindAll(find_val("Stage", lines).s, 1, "deg")

\* x, y, z = ... and alpha, beta = ... raise ValueError on another count
tecnai_stage_raises(lines) ==
    HasStage(lines) /\ (Len(StageUm(lines)) # 3 \/ Len(StageDeg(lines)) # 2)

\* the stage dictionary {'x': x, 'y': y, 'z': z, 'a': alpha, 'b': beta}
StageDict(lines) ==
    (<<"x">> :> StrNode(StageUm(lines)[1])) @@ (<<"y">> :> StrNode(StageUm(lines)[2]))
        @@ (<<"z">> :> StrNode(StageUm(lines)[3]))
        @@ (<<"a">> :> StrNode(StageDeg(lines)[1]))
        @@ (<<"b">> :> StrNode(StageDeg(lines)[2]))

tecnai_stage_mapping(stage) == <<
    MappingElements(stage, <<"x">>,
        <<"General_EM", "stage_position", "x">>, "float", "MicroM", None, tecnai_override),
    MappingElements(stage, <<"y">>,
        <<"General_EM", "stage_position", "y">>, "float", "MicroM", None, tecnai_override),
    MappingElements(stage, <<"z">>,
        <<"General_EM", "stage_position", "z">>, "float", "MicroM", None, tecnai_override),
    MappingElements(stage, <<"a">>,
        <<"General_EM", "stage_position", "tilt_alpha">>, "float", "DEG", None, tecnai_override),
    MappingElements(stage, <<"b">>,
        <<"General_EM", "stage_position", "tilt_beta">>, "float", "DEG", None, tecnai_override) >>

\* if __find_val('Filter related settings', ...): found and not the empty text
HasFilter(lines) ==
    /\ find_val("Filter related settings", lines) # NoneNode
    /\ find_val("Filter related settings", lines).s # ""

\* the five searched lines of the filter block, in the order of filter_dict
FilterLines == <<"Selected dispersion: ", "Selected aperture: ", "Prism shift: ",
                 "Drift tube: ", "Total energy loss: ">>

tecnai_filter_raises(lines) ==
    HasFilter(lines) /\ \E i \in 1..Len(FilterLines) :
                            extract_raises(find_val(FilterLines[i], lines))

filter_dict(lines) ==
    (<<"Mode">> :> find_val("Mode: ", lines))
    @@ (<<"Dispersion">> :> extract_val(Regex("", "any", "[eV/Channel]"),
                                        find_val("Selected dispersion: ", lines)))
    @@ (<<"Aperture">> :> extract_val(Regex("", "digits", "mm"),
                                      find_val("Selected aperture: ", lines)))
    @@ (<<"Prism">> :> extract_val(Regex("", "any", "[eV]"),
                                   find_val("Prism shift: ", lines)))
    @@ (<<"Drift">> :> extract_val(Regex("", "any", "[eV]"),
                                   find_val("Drift tube: ", lines)))
    @@ (<<"TotalLoss">> :> extract_val(Regex("", "any", "[eV]"),
                                       find_val("Total energy loss: ", lines)))

tecnai_filter_mapping(fd) == <<
    MappingElements(fd, <<"Mode">>,
        <<"EELS", "spectrometer_mode">>, "str", None, None, tecnai_override),
    MappingElements(fd, <<"Dispersion">>,
        <<"EELS", "dispersion_per_channel">>, "float", "EV", None, tecnai_override),
    MappingElements(fd, <<"Aperture">>,
        <<"EELS", "aperture_size">>, "float", "MilliM", None, tecnai_override),
    MappingElements(fd, <<"Drift">>,
        <<"EELS", "drift_tube_energy">>, "float", "EV", None, tecnai_override),
    MappingElements(fd, <<"Prism">>,
        <<"EELS", "prism_shift_energy">>, "float", "EV", None, tecnai_override),
    MappingElements(fd, <<"TotalLoss">>,
        <<"EELS", "total_energy_loss">>, "float", "EV", None, tecnai_override) >>

\* the exception _dm3_tecnai_info raises on these lines, "" when none
tecnai_exception(lines) ==
    IF tecnai_base_raises(lines) THEN "TypeError"
    ELSE IF tecnai_stage_raises(lines) THEN "ValueError"
    ELSE IF tecnai_filter_raises(lines) THEN "TypeError"
    ELSE ""

\* the mapping list of _dm3_tecnai_info, when building it raises nothing
dm3_tecnai_mapping(lines) ==
    tecnai_base_mapping(lines)
    \o (IF HasStage(lines) THEN tecnai_stage_mapping(StageDict(lines)) ELSE <<>>)
    \o (IF HasFilter(lines) THEN tecnai_filter_mapping(filter_dict(lines)) ELSE <<>>)

---------------------------------------------------------------------------
(* The rest of _parse_file: values read directly, image shape, the record *)

\* cast(d[k1][k2]...) inside try/except: NoneNode when the lookup or the
\* cast raises
TryCast(cast, t, path) == IF path \in DOMAIN t THEN Cast(cast, t, path) ELSE NoneNode

\* self.em[key] = value
Assign(t, key, value) ==
    LET keep == {q \in DOMAIN t : ~IsPrefix(<<key>>, q)}
    IN  [q \in keep \cup {<<key>>} |-> IF q = <<key>> THEN value ELSE t[q]]

AssignIf(t, key, value) == IF value = NoneNode THEN t ELSE Assign(t, key, value)

\* the first of two alternatives that raises nothing
OrElse(a, b) == IF a # NoneNode THEN a ELSE b

micro_info == ImageTags \o <<"Microscope Info">>

exp_desc == <<"ObjectInfo", "ExperimentalDescription">>

\* the values written as direct children of self.em
non_hs_data(raw, dest) ==
    LET emission == OrElse(TryCast("float", raw, micro_info \o <<"Emission Current (uA)">>),
                           TryCast("float", raw, exp_desc \o <<"Emission_uA">>))
        mode == TryCast("str", raw, micro_info \o <<"Operation Mode">>)
        scope == OrElse(TryCast("str", raw, ImageTags \o <<"Session Info", "Microscope">>),
                        TryCast("str", raw, micro_info \o <<"Name">>))
        spot == TryCast("int", raw, exp_desc \o <<"Spot size">>)
    IN  AssignIf(AssignIf(AssignIf(AssignIf(dest,
            "emission_current", emission),
            "operation_mode", mode),
            "microscope", scope),
            "spot_size", spot)

Dimensions == <<"ImageList", "TagGroup0", "ImageData", "Dimensions">>

\* the order in which the decoder inserts the items of Dimensions
DimOrder == <<"Data0", "Data1", "Data2">>

\* [int(dim) for dim in ...["Dimensions"].values()], as nodes
base_shape(raw) ==
    LET present == SelectSeq(DimOrder, LAMBDA d : d \in Keys(raw, Dimensions))
    IN  [i \in 1..Len(present) |-> TryCast("int", raw, Dimensions \o <<present[i]>>)]

\* building base_shape raises: Dimensions is missing or is no mapping, or an
\* item does not cast to int
shape_raises(raw) ==
    \/ Dimensions \notin DOMAIN raw
    \/ raw[Dimensions].k # "map"
    \/ \E i \in 1..Len(base_shape(raw)) : base_shape(raw)[i] = NoneNode

\* a shape in the order of the raw dimensions
shape_of_raw_order(raw) == [i \in 1..Len(base_shape(raw)) |-> base_shape(raw)[i].n \div 1000]

\* the shape: x and y swapped when there are two axes or more
shape_of(raw) ==
    LET b == [i \in 1..Len(base_shape(raw)) |-> base_shape(raw)[i].n \div 1000]
    IN  IF Len(b) >= 2 THEN <<b[2], b[1]>> \o SubSeq(b, 3, Len(b))
        ELSE b

\* self.image after the image metadata block: <<>> when it has no shape
image_metadata(raw) ==
    IF shape_raises(raw) \/ shape_of(raw) = <<>> THEN <<>> ELSE <<shape_of(raw)>>

\* self.raw_meta after a write to self.em: self.em['raw_metadata'] is
\* self.raw_meta itself as long as the key is there
raw_metadata_of(e, raw) ==
    IF <<"raw_metadata">> \in DOMAIN e THEN Subtree(e, <<"raw_metadata">>) ELSE raw

\* the keys of the root mapping of tree t
TopKeys(t) == {q[1] : q \in DOMAIN t}

\* a loop that stops after its first pop
remove_empty_first(t) ==
    LET empty == {key \in TopKeys(t) : IsEmptyAt(t, <<key>>)}
        popped == IF empty = {} THEN {} ELSE {CHOOSE key \in empty : TRUE}
    IN  [q \in {r \in DOMAIN t : r[1] \notin popped} |-> t[q]]

\* a loop that pops the None values only
remove_empty_none_only(t) ==
    LET popped == {key \in TopKeys(t) : t[<<key>>].k = "none"}
    IN  [q \in {r \in DOMAIN t : r[1] \notin popped} |-> t[q]]

\* "Remove None/empty values": the loop over the items of self.em
remove_empty(t) ==
    LET popped == {key \in TopKeys(t) : IsEmptyAt(t, <<key>>)}
    IN  [q \in {r \in DOMAIN t : r[1] \notin popped} |-> t[q]]

\* a record that always has both keys
make_record_both(e, img) ==
    [keys |-> {"electron_microscopy", "image"}, electron_microscopy |-> e, image |-> img]

\* the record returned
make_record(e, img) ==
    [keys |-> (IF e # EmptyTree THEN {"electron_microscopy"} ELSE {})
                 \cup (IF img # <<>> THEN {"image"} ELSE {}),
     electron_microscopy |-> e,
     image |-> img]

NoRecord == [keys |-> {}, electron_microscopy |-> EmptyTree, image |-> <<>>]

\* the locals of a call that has not started
NoCall == [pc |-> "idle", record |-> NoRecord, raised |-> "", called |-> <<>>,
           hs_data |-> [is_list |-> FALSE, signals |-> <<>>]]

Sections == <<"General", "General_EM", "TEM", "SEM", "EDS", "EELS">>

\* self.em after lines 145-148: raw_metadata and the six empty sections
initial_em(raw) ==
    LET base == Graft(EmptyTree, <<"raw_metadata">>, raw)
    IN  [q \in DOMAIN base \cup {<<Sections[i]>> : i \in 1..Len(Sections)} |->
            IF q \in DOMAIN base THEN base[q] ELSE MapNode]

---------------------------------------------------------------------------
(* The decoded datasets: the inputs of the model *)

\* at most MaxFacts facts hold of one dataset
MaxFacts == 2

\* the float i.f, f in thousandths
Float(i, f) == NumNode(i * 1000 + f)

Fact(t, path, node) == [t |-> t, e |-> (path :> node)]

TEM == <<"Acquisition_instrument", "TEM">>

SEM == <<"Acquisition_instrument", "SEM">>

StackTags == ImageTags \o <<"plane info", "TagGroup0", "source tags">>

\* Tecnai strings.  In files written by the microscope the extractor
\* voltage stands inside the Gun line and the other fields start their line.
TecnaiImaging ==
    "Microscope Titan\nGun FEG Extr volt 4400 V\nEmission 219.4uA\n"
    \o "Mode TEM Defocus (um) -0.83 Magn 8100x\nSpot 5\n"
    \o "Stage X 1.5 um Y 2.5 um Z 3.5 um A 0.5 deg B 1.5 deg"

TecnaiDiffraction ==
    "Microscope Titan\nGun FEG Extr volt 4400 V\nEmission 219.4uA\n"
    \o "Mode STEM Defocus 1.5 CL 0.3m\nFilter related settings:\nMode: EELS\n"
    \o "Selected dispersion: 0.25 [eV/Channel]\nSelected aperture: 2mm\n"
    \o "Prism shift: 10 [eV]\nDrift tube: 20 [eV]\nTotal energy loss: 30 [eV]"

\* every searched prefix inside its line, so that no prefix is removed
TecnaiInside ==
    "Microscope Titan\nGun FEG Extr volt 300 V\nBeam Emission 120.5uA\n"
    \o "Mode TEM Defocus (um) 1.0 Magn 100x"

\* the three lines of the documented example
TecnaiThreeLines == "Microscope Titan\nExtr volt 300 V\nEmission 120.5uA"

\* the documented example followed by a Mode line
TecnaiFourLines == TecnaiThreeLines \o "\nMode TEM Defocus (um) 1.0 Magn 100x"

\* no line for the extractor voltage
TecnaiNoExtrVolt == "Microscope Titan\nEmission 120.5uA\nMode TEM Defocus (um) 1.0 Magn 100x"

\* a Stage line with two lengths only
TecnaiBadStage == TecnaiFourLines \o "\nStage X 1.5 um Y 2.5 um A 0.5 deg B 1.5 deg"

\* a filter block without its aperture line
TecnaiBadFilter ==
    TecnaiFourLines \o "\nFilter related settings:\nSelected dispersion: 0.25 [eV/Channel]"

\* a Mode line that both defocus expressions match
TecnaiTwoDefocus ==
    TecnaiThreeLines \o "\nMode TEM Defocus (um) 1.0 Magn 100x Defocus 2.5 CL 0.3m"

TecnaiStrings == <<TecnaiImaging, TecnaiDiffraction, TecnaiInside, TecnaiThreeLines,
                   TecnaiFourLines, TecnaiNoExtrVolt, TecnaiBadStage, TecnaiBadFilter,
                   TecnaiTwoDefocus>>

MetaFacts == <<
    Fact("meta", TEM \o <<"beam_energy">>, Float(200, 0)),
    Fact("meta", TEM \o <<"beam_energy">>, Float(0, 0)),
    Fact("meta", TEM \o <<"beam_current">>, StrNode("n/a")),
    Fact("meta", TEM \o <<"microscope">>, StrNode("JEOL")),
    Fact("meta", SEM \o <<"microscope">>, StrNode("Quanta")),
    Fact("meta", <<"Acquisition_instrument", "None", "microscope">>, StrNode("Other")),
    Fact("meta", TEM \o <<"magnification">>, Float(5000, 0)),
    Fact("meta", TEM \o <<"Stage", "x">>, Float(1, 250)),
    Fact("meta", TEM \o <<"camera_length">>, Float(100, 0)),
    Fact("meta", TEM \o <<"Detector", "EELS", "exposure">>, Float(0, 500)),
    Fact("meta", TEM \o <<"Detector", "EELS", "aperture_size">>, Float(5, 0)),
    Fact("meta", TEM \o <<"Detector", "EDS", "live_time">>, Float(30, 0)),
    Fact("meta", <<"Sample", "elements">>, ListNode(<<>>)),
    Fact("meta", <<"Sample", "elements">>, ListNode(<<"Fe", "O">>)),
    Fact("meta", <<"General", "title">>, StrNode("Sample overview")) >>

RawFacts == <<
    Fact("raw", ImageTags \o <<"Microscope Info", "Microscope">>, StrNode("FEI Titan")),
    Fact("raw", ImageTags \o <<"Session Info", "Microscope">>, StrNode("Session scope")),
    Fact("raw", StackTags \o <<"Microscope Info", "Microscope">>, StrNode("Stack scope")),
    Fact("raw", ImageTags \o <<"plane info", "TagGroup0", "Index">>, Float(0, 0)),
    Fact("raw", ImageTags \o <<"Microscope Info", "Indicated Magnification">>, Float(8000, 0)),
    Fact("raw", ImageTags \o <<"Microscope Info", "Stage Position", "Stage X">>, Float(2000, 0)),
    Fact("raw", ImageTags \o <<"Microscope Info", "Emission Current (uA)">>, Float(100, 0)),
    Fact("raw", ImageTags \o <<"Microscope Info", "Operation Mode">>, StrNode("IMAGING")),
    Fact("raw", ImageTags \o <<"Microscope Info", "STEM Camera Length">>, Float(250, 0)),
    Fact("raw", ImageTags \o <<"Microscope Info", "Voltage">>, Float(200000, 0)),
    Fact("raw", ImageTags \o <<"Microscope Info", "Voltage">>, Float(1000, 0)),
    Fact("raw", ImageTags \o <<"Microscope Info", "Voltage">>, Float(999, 999)),
    Fact("raw", ImageTags \o <<"Microscope Info", "Voltage">>, StrNode("n/a")),
    Fact("raw", ImageTags \o <<"Acquisition", "Parameters", "High Level", "Exposure (s)">>,
         Float(1, 0)),
    Fact("raw", ImageTags \o <<"DataBar", "Exposure Time (s)">>, Float(2, 0)),
    Fact("raw", ImageTags \o <<"EELS", "Acquisition", "Exposure (s)">>, Float(3, 0)),
    Fact("raw", ImageTags \o <<"EELS", "Acquisition", "Spectrometer", "Dispersion (eV/ch)">>,
         Float(0, 500)),
    Fact("raw", ImageTags \o <<"EELS Spectrometer", "Aperture label">>, StrNode("2.5 mm")),
    Fact("raw", ImageTags \o <<"EDS", "Live time">>, Float(40, 0)),
    Fact("raw", ImageTags \o <<"EDS", "Acquisition", "Dispersion (eV)">>, Float(10, 0)),
    Fact("raw", exp_desc \o <<"Emission_uA">>, Float(50, 0)),
    Fact("raw", exp_desc \o <<"Spot size">>, Float(3, 0)),
    [t |-> "raw", e |-> ((Dimensions :> MapNode)
                         @@ ((Dimensions \o <<"Data0">>) :> Float(10, 0))
                         @@ ((Dimensions \o <<"Data1">>) :> Float(20, 0)))],
    [t |-> "raw", e |-> ((Dimensions :> MapNode)
                         @@ ((Dimensions \o <<"Data0">>) :> Float(10, 0)))],
    [t |-> "raw", e |-> ((Dimensions :> MapNode)
                         @@ ((Dimensions \o <<"Data0">>) :> Float(10, 0))
                         @@ ((Dimensions \o <<"Data1">>) :> Float(20, 0))
                         @@ ((Dimensions \o <<"Data2">>) :> Float(3, 0)))],
    Fact("raw", Dimensions, MapNode) >>

TecnaiFacts == [i \in 1..Len(TecnaiStrings) |->
                   Fact("raw", path_to_tecnai, StrNode(TecnaiStrings[i]))]

Range(f) == {f[i] : i \in DOMAIN f}

Facts == Range(MetaFacts) \cup Range(RawFacts) \cup Range(TecnaiFacts)

\* two facts can hold of one dataset: neither gives a value at or below a
\* place where the other gives one
Compatible(f, g) ==
    f.t = g.t => \A p \in DOMAIN f.e, q \in DOMAIN g.e : ~IsPrefix(p, q) /\ ~IsPrefix(q, p)

\* the sets of at most k facts that can hold together
RECURSIVE Choices(_)
Choices(k) ==
    IF k = 0 THEN {{}}
    ELSE Choices(k - 1) \cup
         UNION {{c \cup {f} : f \in {g \in Facts : \A h \in c : Compatible(g, h)}} :
                   c \in Choices(k - 1)}

\* the tree t of a dataset of which the facts c hold
Build(c, t) ==
    LET fs == {f \in c : f.t = t}
        given == UNION {DOMAIN f.e : f \in fs}
        above == UNION {Prefixes(p) : p \in given} \ given
    IN  [q \in given \cup above |->
            IF q \in given THEN (CHOOSE f \in fs : q \in DOMAIN f.e).e[q] ELSE MapNode]

\* what hs_load can return: metadata and original_metadata as dictionaries
Datasets ==
    {[metadata |-> Build(c, "meta"), original_metadata |-> Build(c, "raw")] :
        c \in Choices(MaxFacts)}

\* the dataset of which exactly the facts c hold
DatasetOf(c) == [metadata |-> Build(c, "meta"), original_metadata |-> Build(c, "raw")]

\* a few datasets, for stacks and for the calls after the first: the empty
\* one and some with one fact
SmallFacts == {
    Fact("meta", TEM \o <<"microscope">>, StrNode("JEOL")),
    Fact("meta", SEM \o <<"microscope">>, StrNode("Quanta")),
    Fact("raw", ImageTags \o <<"Microscope Info", "Microscope">>, StrNode("FEI Titan")),
    Fact("raw", Dimensions \o <<"Data0">>, Float(10, 0)),
    Fact("raw", path_to_tecnai, StrNode(TecnaiImaging)),
    Fact("raw", path_to_tecnai, StrNode(TecnaiThreeLines)) }

SmallDatasets == {DatasetOf({})} \cup {DatasetOf({f}) : f \in SmallFacts}

\* what hs_load returns: one dataset, or a list of datasets (signals holds
\* the dataset, or the items of the list)
Loads ==
    {[is_list |-> FALSE, signals |-> <<d>>] : d \in Datasets}
    \cup {[is_list |-> TRUE, signals |-> <<d, e>>] : d \in SmallDatasets, e \in SmallDatasets}

SmallLoads == {[is_list |-> FALSE, signals |-> <<d>>] : d \in SmallDatasets}

NoLoad == [is_list |-> FALSE, signals |-> <<>>]

\* the last dataset of a list
hs_last(load) == load.signals[Len(load.signals)]

\* hs_data after lines 139-141: hs_data[0] of a list, else hs_data itself
hs_first(load) == load.signals[1]

\* calls started on one parser
MaxCalls == 2

---------------------------------------------------------------------------
(* _parse_file *)

\* the processors with the free-text processor called last
Processors_tecnai_last == <<"process_hs_data", "dm3_general_info", "dm3_eels_info",
                           "dm3_eds_info", "dm3_tecnai_info">>

\* the processors _parse_file calls, in the order of the calls
Processors == <<"process_hs_data", "dm3_general_info", "dm3_eels_info",
                "dm3_tecnai_info", "dm3_eds_info">>

\* the blocks of _parse_file that follow the processors
Blocks == <<"non_hs_data", "image_metadata", "return">>

Steps == Processors \o Blocks

\* the step that follows step s
After(s) ==
    LET i == CHOOSE j \in 1..Len(Steps) : Steps[j] = s
    IN  IF i < Len(Steps) THEN Steps[i + 1] ELSE "done"

Init ==
    /\ pc = "idle"
    /\ meta = EmptyTree
    /\ raw_meta = EmptyTree
    /\ em = EmptyTree
    /\ image = <<>>
    /\ inst = "unset"
    /\ inst_data = <<>>
    /\ tecnai_info = <<>>
    /\ record = NoRecord
    /\ raised = ""
    /\ called = <<>>
    /\ hs_data = NoLoad
    /\ calls = 0
    /\ other = NoCall

\* lines 131-148 without line 133: self.image is kept from the call before
parse_file_of_keep_image(loads) ==
    /\ calls < MaxCalls
    /\ \E load \in loads :
        /\ hs_data' = load
        /\ meta' = hs_first(load).metadata
        /\ raw_meta' = hs_first(load).original_metadata
        /\ em' = initial_em(hs_first(load).original_metadata)
    /\ inst_data' = <<>>
    /\ pc' = Steps[1]
    /\ record' = NoRecord
    /\ raised' = ""
    /\ called' = <<>>
    /\ calls' = calls + 1
    /\ UNCHANGED <<image, inst, tecnai_info, other>>

\* lines 131-148 for a file that hs_load decodes to one of loads: self.em,
\* self.image and self.inst_data are set anew, the first dataset is read
parse_file_of(loads) ==
    /\ calls < MaxCalls
    /\ \E load \in loads :
        /\ hs_data' = load
        /\ meta' = hs_first(load).metadata
        /\ raw_meta' = hs_first(load).original_metadata
        /\ em' = initial_em(hs_first(load).original_metadata)
    /\ image' = <<>>
    /\ inst_data' = <<>>
    /\ pc' = Steps[1]
    /\ record' = NoRecord
    /\ raised' = ""
    /\ called' = <<>>
    /\ calls' = calls + 1
    /\ UNCHANGED <<inst, tecnai_info, other>>

\* a call of _parse_file on a parser that runs no other call: its first
\* call, or a call after an earlier one returned or raised
parse_file ==
    /\ pc \in {"idle", "done", "raised"}
    /\ parse_file_of(IF calls = 0 THEN Loads ELSE SmallLoads)

\* a structured-metadata processor whose instrument rules have lost their units
process_hs_data_unitless ==
    /\ pc = "process_hs_data"
    /\ inst' = InstOf(meta)
    /\ inst_data' = IF HasInstData(meta) THEN <<InstData(meta)>> ELSE <<>>
    /\ em' = map_dict_values(hs_general_mapping(meta),
                IF HasInstData(meta)
                THEN map_dict_values(hs_detectors_mapping(InstData(meta)),
                         map_dict_values(
                             [i \in 1..Len(hs_instrument_mapping(InstData(meta))) |->
                                 [hs_instrument_mapping(InstData(meta))[i]
                                     EXCEPT !.units = None]], em))
                ELSE em)
    /\ pc' = After("process_hs_data")
    /\ called' = Append(called, "process_hs_data")
    /\ raw_meta' = raw_metadata_of(em', raw_meta)
    /\ UNCHANGED <<meta, image, tecnai_info, record, raised, hs_data, calls, other>>

process_hs_data ==
    /\ pc = "process_hs_data"
    /\ inst' = InstOf(meta)
    /\ inst_data' = IF HasInstData(meta) THEN <<InstData(meta)>> ELSE <<>>
    /\ em' = map_dict_values(hs_general_mapping(meta),
                IF HasInstData(meta)
                THEN map_dict_values(hs_detectors_mapping(InstData(meta)),
                         map_dict_values(hs_instrument_mapping(InstData(meta)), em))
                ELSE em)
    /\ pc' = After("process_hs_data")
    /\ called' = Append(called, "process_hs_data")
    /\ raw_meta' = raw_metadata_of(em', raw_meta)
    /\ UNCHANGED <<meta, image, tecnai_info, record, raised, hs_data, calls, other>>

dm3_general_info ==
    /\ pc = "dm3_general_info"
    /\ em' = map_dict_values(dm3_general_mapping(raw_meta), dm3_software_name(raw_meta, em))
    /\ pc' = After("dm3_general_info")
    /\ called' = Append(called, "dm3_general_info")
    /\ raw_meta' = raw_metadata_of(em', raw_meta)
    /\ UNCHANGED <<meta, image, inst, inst_data, tecnai_info, record, raised,
                   hs_data, calls, other>>

\* an EELS processor that writes into a fresh destination tree
dm3_eels_info_fresh ==
    /\ pc = "dm3_eels_info"
    /\ em' = map_dict_values(dm3_eels_mapping(raw_meta), initial_em(raw_meta))
    /\ pc' = After("dm3_eels_info")
    /\ called' = Append(called, "dm3_eels_info")
    /\ raw_meta' = raw_metadata_of(em', raw_meta)
    /\ UNCHANGED <<meta, image, inst, inst_data, tecnai_info, record, raised,
                   hs_data, calls, other>>

dm3_eels_info ==
    /\ pc = "dm3_eels_info"
    /\ em' = map_dict_values(dm3_eels_mapping(raw_meta), em)
    /\ pc' = After("dm3_eels_info")
    /\ called' = Append(called, "dm3_eels_info")
    /\ raw_meta' = raw_metadata_of(em', raw_meta)
    /\ UNCHANGED <<meta, image, inst, inst_data, tecnai_info, record, raised,
                   hs_data, calls, other>>

\* the Tecnai tag is a str whenever it is present
dm3_tecnai_info ==
    /\ pc = "dm3_tecnai_info"
    /\ LET found == get_val(raw_meta, path_to_tecnai, None)
           lines == Split(found.s, delimiter)
       IN  IF found = NoneNode
           THEN /\ tecnai_info' = <<>>
                /\ pc' = After("dm3_tecnai_info")
                /\ UNCHANGED <<em, raised>>
           ELSE /\ found.k = "str"
                /\ tecnai_info' = <<lines>>
                /\ IF tecnai_exception(lines) # ""
                   THEN /\ raised' = tecnai_exception(lines)
                        /\ pc' = "raised"
                        /\ UNCHANGED em
                   ELSE /\ em' = map_dict_values(dm3_tecnai_mapping(lines), em)
                        /\ pc' = After("dm3_tecnai_info")
                        /\ UNCHANGED raised
    /\ called' = Append(called, "dm3_tecnai_info")
    /\ raw_meta' = raw_metadata_of(em', raw_meta)
    /\ UNCHANGED <<meta, image, inst, inst_data, record, hs_data, calls, other>>

dm3_eds_info ==
    /\ pc = "dm3_eds_info"
    /\ em' = map_dict_values(dm3_eds_mapping(raw_meta), em)
    /\ pc' = After("dm3_eds_info")
    /\ called' = Append(called, "dm3_eds_info")
    /\ raw_meta' = raw_metadata_of(em', raw_meta)
    /\ UNCHANGED <<meta, image, inst, inst_data, tecnai_info, record, raised,
                   hs_data, calls, other>>

\* lines 163-201
parse_file_non_hs ==
    /\ pc = "non_hs_data"
    /\ em' = non_hs_data(raw_meta, em)
    /\ pc' = After("non_hs_data")
    /\ UNCHANGED called
    /\ UNCHANGED <<meta, raw_meta, image, inst, inst_data, tecnai_info, record, raised,
                   hs_data, calls, other>>

\* lines 203-221
parse_file_image ==
    /\ pc = "image_metadata"
    /\ image' = IF image_metadata(raw_meta) # <<>> THEN image_metadata(raw_meta) ELSE image
    /\ pc' = After("image_metadata")
    /\ UNCHANGED called
    /\ UNCHANGED <<meta, raw_meta, em, inst, inst_data, tecnai_info, record, raised,
                   hs_data, calls, other>>

\* lines 223-234
parse_file_return ==
    /\ pc = "return"
    /\ em' = remove_empty(em)
    /\ record' = make_record(remove_empty(em), image)
    /\ pc' = After("return")
    /\ UNCHANGED called
    /\ UNCHANGED <<meta, raw_meta, image, inst, inst_data, tecnai_info, raised,
                   hs_data, calls, other>>

Next ==
    \/ parse_file
    \/ process_hs_data
    \/ dm3_general_info
    \/ dm3_eels_info
    \/ dm3_tecnai_info
    \/ dm3_eds_info
    \/ parse_file_non_hs
    \/ parse_file_image
    \/ parse_file_return

Spec == Init /\ [][Next]_vars

\* a call of _parse_file made by a thread that has made none
thread_parse_file ==
    /\ pc = "idle"
    /\ parse_file_of(SmallLoads)

\* the scheduler suspends the running call and resumes the other one: the
\* locals are swapped, the attributes of the parser are the same object
switch ==
    /\ pc' = other.pc
    /\ record' = other.record
    /\ raised' = other.raised
    /\ called' = other.called
    /\ hs_data' = other.hs_data
    /\ other' = [pc |-> pc, record |-> record, raised |-> raised, called |-> called,
                 hs_data |-> hs_data]
    /\ UNCHANGED <<meta, raw_meta, em, image, inst, inst_data, tecnai_info, calls>>

\* two threads that each call _parse_file once on one parser
NextThreads ==
    \/ thread_parse_file
    \/ process_hs_data
    \/ dm3_general_info
    \/ dm3_eels_info
    \/ dm3_tecnai_info
    \/ dm3_eds_info
    \/ parse_file_non_hs
    \/ parse_file_image
    \/ parse_file_return
    \/ switch

SpecThreads == Init /\ [][NextThreads]_vars

---------------------------------------------------------------------------
(* Properties *)

\* the entries of tree t at and below path
LeafAt(t, path) == [q \in {r \in DOMAIN t : IsPrefix(path, r)} |-> t[q]]

\* what a rule writes when it writes
Written(m) == Leaf(m.dest_path, Fetch(m), m.units)

\* the embedded free-text block is present in the raw tree
HasTecnai == get_val(raw_meta, path_to_tecnai, None) # NoneNode

\* C1: whenever the embedded free-text block is present, whatever lines it
\* holds or lacks, extraction completes: no error reaches the caller.
C1_FreeTextNeverRaises == HasTecnai => raised = ""

\* the destination paths C2 names
C2Paths == {
    <<"General_EM", "microscope_name">>, <<"General_EM", "emission_current">>,
    <<"TEM", "operation_mode">>, <<"General_EM", "magnification_indicated">>,
    <<"TEM", "camera_length">>, <<"General_EM", "stage_position", "x">>,
    <<"General_EM", "stage_position", "y">>, <<"General_EM", "stage_position", "z">>,
    <<"General_EM", "stage_position", "tilt_alpha">>,
    <<"General_EM", "stage_position", "tilt_beta">>,
    <<"EELS", "dispersion_per_channel">>, <<"EELS", "aperture_size">> }

\* the rules of the structured-metadata and vendor tag-tree stages that
\* write sections the free-text stage writes too
NonOverrideRules ==
    process_hs_data_rules(meta) \o dm3_general_mapping(raw_meta)
        \o dm3_eels_mapping(raw_meta)

\* C2: for every destination path of C2Paths for which the free-text block
\* yields a successfully cast value, the returned record holds that value with
\* the unit of the free-text rule, whatever the other stages wrote there.
C2_FreeTextWins ==
    (pc = "done" /\ HasTecnai) =>
        \A m \in Range(dm3_tecnai_mapping(tecnai_info[1])) :
            (m.dest_path \in C2Paths /\ Fetch(m) # NoneNode) =>
                LeafAt(record.electron_microscopy, m.dest_path) = Written(m)

\* a record is returned in which a free-text value replaced another value
\* that an earlier stage had found for the same path
C2_Witness ==
    /\ pc = "done"
    /\ HasTecnai
    /\ \E m \in Range(dm3_tecnai_mapping(tecnai_info[1])), r \in Range(NonOverrideRules) :
           /\ m.dest_path \in C2Paths
           /\ r.dest_path = m.dest_path
           /\ Fetch(m) # NoneNode
           /\ Fetch(r) # NoneNode
           /\ Written(r) # Written(m)

\* the rules of list rules that target path and whose value is found and cast
Writers(rules, path) ==
    {i \in 1..Len(rules) : rules[i].dest_path = path /\ Fetch(rules[i]) # NoneNode}

\* the first of them, in execution order
FirstWriter(rules, path) ==
    rules[CHOOSE i \in Writers(rules, path) : \A j \in Writers(rules, path) : i <= j]

\* tree t holds, at every path some rule of rules writes, what the first
\* such rule writes
FirstWriterHolds(rules, t) ==
    \A i \in 1..Len(rules) :
        Fetch(rules[i]) # NoneNode =>
            LeafAt(t, rules[i].dest_path) = Written(FirstWriter(rules, rules[i].dest_path))

\* C3: first writer wins within and across the stages that do not override:
\* once the structured, vendor general and vendor EELS stages have run (and,
\* for the EDS section, once the vendor EDS stage has run), every path holds
\* the value of the first rule, in execution order, whose source was found and
\* whose cast succeeded.
C3_FirstWriterWins ==
    /\ pc = "dm3_tecnai_info" => FirstWriterHolds(NonOverrideRules, em)
    /\ pc = "non_hs_data" =>
           FirstWriterHolds(
               SelectSeq(process_hs_data_rules(meta) \o dm3_eds_mapping(raw_meta),
                         LAMBDA m : m.dest_path[1] = "EDS"), em)

\* two rules of different stages found different values for one path
C3_Witness ==
    /\ pc = "dm3_tecnai_info"
    /\ \E i \in 1..Len(NonOverrideRules), j \in 1..Len(NonOverrideRules) :
           /\ i < j
           /\ NonOverrideRules[i].dest_path = NonOverrideRules[j].dest_path
           /\ Fetch(NonOverrideRules[i]) # NoneNode
           /\ Fetch(NonOverrideRules[j]) # NoneNode
           /\ Written(NonOverrideRules[i]) # Written(NonOverrideRules[j])

\* the lines of the free-text block
TecnaiLines == Split(get_val(raw_meta, path_to_tecnai, None).s, delimiter)

\* the rules of the free-text stage: none without a block, none when the
\* stage raises before it applies them
TecnaiRules ==
    IF HasTecnai /\ tecnai_exception(TecnaiLines) = ""
    THEN dm3_tecnai_mapping(TecnaiLines)
    ELSE <<>>

\* the rules the processor at pc applies
StageRules ==
    CASE pc = "process_hs_data" -> process_hs_data_rules(meta)
      [] pc = "dm3_general_info" -> dm3_general_mapping(raw_meta)
      [] pc = "dm3_eels_info" -> dm3_eels_mapping(raw_meta)
      [] pc = "dm3_tecnai_info" -> TecnaiRules
      [] pc = "dm3_eds_info" -> dm3_eds_mapping(raw_meta)
      [] OTHER -> <<>>

\* the tree its first rule is applied to
StageStart == IF pc = "dm3_general_info" THEN dm3_software_name(raw_meta, em) ELSE em

\* the destination paths of the rules of all stages, read off the rule
\* tables (the free-text tables with stage and with filter rules; the
\* voltage rule, which is in its table only when the tag is present)
DestPaths ==
    LET rules == hs_instrument_mapping(EmptyTree) \o hs_detectors_mapping(EmptyTree)
                     \o hs_detector_node_mapping(EmptyTree) \o hs_general_mapping(EmptyTree)
                     \o dm3_general_mapping(EmptyTree) \o dm3_eels_mapping(EmptyTree)
                     \o dm3_eds_mapping(EmptyTree)
                     \o dm3_tecnai_mapping(Split(TecnaiImaging, delimiter))
                     \o dm3_tecnai_mapping(Split(TecnaiDiffraction, delimiter))
    IN  {rules[i].dest_path : i \in 1..Len(rules)}
            \cup {<<"General_EM", "accelerating_voltage">>}

\* one application of rule m to tree t, giving tree u: populated paths stay
\* populated, a rule without a value changes nothing, only an override
\* rule replaces
RuleOK(m, t, u, paths) ==
    /\ Fetch(m) = NoneNode => u = t
    /\ u # t =>
           \A p \in paths \cap DOMAIN t :
               Populated(t, p) =>
                   /\ Populated(u, p)
                   /\ LeafAt(u, p) # LeafAt(t, p) => (m.override /\ m.dest_path = p)

\* every rule from the i-th on, applied in order from tree t, is RuleOK, and
\* the last one leaves the tree last
RECURSIVE RulesOK(_, _, _, _, _)
RulesOK(rules, i, t, paths, last) ==
    IF i > Len(rules) THEN t = last
    ELSE LET u == map_one(rules[i], t)
         IN  RuleOK(rules[i], t, u, paths) /\ RulesOK(rules, i + 1, u, paths, last)

\* C4: monotonic population.  In every step of every processor that
\* completes, each rule application, on the tree the rules before it left,
\* keeps every populated destination path populated, changes nothing when its
\* source is not found or its cast fails, and replaces a value only when the
\* rule has override=true; the tree the processor leaves is the tree its last
\* rule leaves, and what was populated when it started still is.
C4_MonotonicPopulation ==
    [][(pc \in Range(Processors) /\ pc' # "raised") =>
           /\ RulesOK(StageRules, 1, StageStart, DestPaths, em')
           /\ \A p \in DestPaths : Populated(em, p) => Populated(em', p)]_vars

\* the vendor general stage has run; one of its rules found a value for a
\* path that already held another, which is kept, and another found none
C4_Witness ==
    /\ pc = "dm3_eels_info"
    /\ \E i \in 1..Len(dm3_general_mapping(raw_meta)) :
           LET m == dm3_general_mapping(raw_meta)[i]
           IN  /\ Fetch(m) # NoneNode
               /\ ~m.override
               /\ Populated(em, m.dest_path)
               /\ LeafAt(em, m.dest_path) # Written(m)
    /\ \E i \in 1..Len(dm3_general_mapping(raw_meta)) :
           Fetch(dm3_general_mapping(raw_meta)[i]) = NoneNode

C6_Metadata ==
    (<<"Acquisition_instrument">> :> MapNode) @@ (TEM :> MapNode)
        @@ ((TEM \o <<"beam_energy">>) :> Float(200, 0))
        @@ ((TEM \o <<"microscope">>) :> StrNode("JEOL"))

\* the General_EM section of the end-to-end example
C6_General_EM ==
    (<<"General_EM">> :> MapNode)
        @@ (<<"General_EM", "beam_energy">> :> MapNode)
        @@ (<<"General_EM", "beam_energy", "value">> :> Float(200, 0))
        @@ (<<"General_EM", "beam_energy", "unit">> :> StrNode("KiloEV"))
        @@ (<<"General_EM", "microscope_name">> :> StrNode("JEOL"))

C7_EmbeddedExample ==
    (/\ pc \in {"raised", "done"}
     /\ HasTecnai
     /\ raw_meta[path_to_tecnai].s \in {TecnaiThreeLines, TecnaiFourLines}) =>
        /\ pc = "done"
        /\ LET e == record.electron_microscopy
           IN  /\ LeafAt(e, <<"General_EM", "microscope_name">>) =
                      Leaf(<<"General_EM", "microscope_name">>, StrNode("Titan"), None)
               /\ LeafAt(e, <<"TEM", "extractor_voltage">>) =
                      Leaf(<<"TEM", "extractor_voltage">>, Float(300, 0), "V")
               /\ LeafAt(e, <<"General_EM", "emission_current">>) =
                      Leaf(<<"General_EM", "emission_current">>, Float(120, 500), "MicroA")

\* C8: the keys of the electron_microscopy section of the returned record are
\* among General, General_EM, TEM, SEM, EDS, EELS and raw_metadata.
C8_FixedSections ==
    pc = "done" =>
        TopKeys(record.electron_microscopy) \subseteq Range(Sections) \cup {"raw_metadata"}

\* the vendor tag-tree processors
VendorProcessors == {"dm3_general_info", "dm3_eels_info", "dm3_eds_info"}

C10_NoEmptyAtAnyDepth ==
    pc = "done" =>
        \A p \in DOMAIN record.electron_microscopy :
            p[1] \in Range(Sections) => ~IsEmptyAt(record.electron_microscopy, p)

\* C11: pruning is idempotent: for every destination tree, pruning the
\* pruned tree gives what pruning once gives, and pruning a tree none of whose
\* values is empty returns it unchanged.
C11_PruneIdempotent ==
    /\ remove_empty(remove_empty(em)) = remove_empty(em)
    /\ (\A key \in TopKeys(em) : ~IsEmptyAt(em, <<key>>)) => remove_empty(em) = em

\* a destination tree about to be pruned, of which pruning removes some
\* branches and keeps others
C11_Witness ==
    /\ pc = "return"
    /\ remove_empty(em) # em
    /\ remove_empty(em) # EmptyTree

\* C12: the returned record has the key electron_microscopy exactly when the
\* pruned destination tree is not empty, and the key image exactly when a
\* shape was derived from the raw dimensions; a dataset whose structured and
\* raw metadata are both empty yields the empty record.
C12_KeysOnlyWhenNonEmpty ==
    pc = "done" =>
        /\ "electron_microscopy" \in record.keys <=> em # EmptyTree
        /\ "electron_microscopy" \in record.keys => record.electron_microscopy = em
        /\ "image" \in record.keys <=> image_metadata(raw_meta) # <<>>
        /\ (meta = EmptyTree /\ raw_meta = EmptyTree) => record.keys = {}

\* the empty record is returned for the empty dataset
C12_Witness ==
    /\ pc = "done"
    /\ meta = EmptyTree
    /\ raw_meta = EmptyTree
    /\ record.keys = {}

\* the raw dimension list d of the dataset
RawDims == [i \in 1..Len(base_shape(raw_meta)) |-> base_shape(raw_meta)[i].n \div 1000]

\* the number of times v occurs in sequence q
Count(q, v) == Cardinality({i \in 1..Len(q) : q[i] = v})

\* C13: image.shape is omitted when the raw dimension list d is absent or
\* empty (or cannot be read as integers); it equals d when d has one axis; and
\* otherwise it is d[1], d[0] followed by d[2..] unchanged: [10, 20] gives
\* [20, 10] and [10, 20, 3] gives [20, 10, 3].  The shape has the length and
\* the multiset of values of d.
C13_ShapeReorder ==
    pc = "done" =>
        IF shape_raises(raw_meta) \/ RawDims = <<>>
        THEN "image" \notin record.keys
        ELSE /\ "image" \in record.keys
             /\ LET shape == record.image[1]
                IN  /\ Len(shape) = Len(RawDims)
                    /\ Len(RawDims) = 1 => shape = RawDims
                    /\ Len(RawDims) >= 2 =>
                           /\ shape[1] = RawDims[2]
                           /\ shape[2] = RawDims[1]
                           /\ \A i \in 3..Len(RawDims) : shape[i] = RawDims[i]
                    /\ \A i \in 1..Len(RawDims) :
                           Count(shape, RawDims[i]) = Count(RawDims, RawDims[i])
                    /\ RawDims = <<10, 20>> => shape = <<20, 10>>
                    /\ RawDims = <<10, 20, 3>> => shape = <<20, 10, 3>>

\* a record with the shape of a three-axis dataset
C13_Witness ==
    /\ pc = "done"
    /\ RawDims = <<10, 20, 3>>
    /\ record.image = <<(<<20, 10, 3>>)>>

\* the rules one call applies, in the order of the calls
AppliedRules == NonOverrideRules \o TecnaiRules \o dm3_eds_mapping(raw_meta)

\* the leaf of tree t at the destination of rule m is what m writes: the
\* mapping {value, unit} with the unit of m when m declares one, else the
\* bare value
UnitLeafOK(t, m) ==
    IF m.units # None
    THEN /\ t[m.dest_path].k = "map"
         /\ Keys(t, m.dest_path) = {"value", "unit"}
         /\ t[m.dest_path \o <<"value">>] = Fetch(m)
         /\ t[m.dest_path \o <<"unit">>] = StrNode(m.units)
    ELSE /\ t[m.dest_path] = Fetch(m)
         /\ Keys(t, m.dest_path) = {}

\* the leaf of tree t at path p is what one of rules writes
WrittenBySome(t, p, rules) ==
    \E i \in 1..Len(rules) :
        /\ rules[i].dest_path = p
        /\ Fetch(rules[i]) # NoneNode
        /\ UnitLeafOK(t, rules[i])

\* every rule destination of tree t holds what one of rules writes
AllWritten(t, rules) ==
    \A p \in DestPaths \cap DOMAIN t : WrittenBySome(t, p, rules)

\* C14: unit attachment.  Every rule destination of the returned record
\* holds what one applied rule writes: the mapping {value, unit} with that
\* rule's own unit when the rule declares a unit, and the bare value when it
\* does not; value and unit come from the same rule, after an override too.
\* A beam energy of 0.0 is written as {value: 0.0, unit: KiloEV}.
C14_UnitAttachment ==
    pc = "done" =>
        /\ AllWritten(record.electron_microscopy, AppliedRules)
        /\ (HasInstData(meta)
              /\ get_val(InstData(meta), <<"beam_energy">>, "float") = NumNode(0)) =>
               LeafAt(record.electron_microscopy, <<"General_EM", "beam_energy">>) =
                   (<<"General_EM", "beam_energy">> :> MapNode)
                       @@ (<<"General_EM", "beam_energy", "value">> :> NumNode(0))
                       @@ (<<"General_EM", "beam_energy", "unit">> :> StrNode("KiloEV"))

\* a record with a beam energy of 0.0
C14_Witness ==
    /\ pc = "done"
    /\ <<"General_EM", "beam_energy", "value">> \in DOMAIN record.electron_microscopy
    /\ record.electron_microscopy[<<"General_EM", "beam_energy", "value">>] = NumNode(0)

\* map_dict_values(rules) on destination tree t; the test makes TLC compute
\* t before it applies the rules, stage by stage
stage(rules, t) ==
    IF t = EmptyTree THEN map_dict_values(rules, EmptyTree) ELSE map_dict_values(rules, t)

\* the destination tree _parse_file builds for dataset d when nothing
\* interferes: the processors and blocks in the order of the calls
alone_em(d) ==
    LET m == d.metadata
        raw == d.original_metadata
        found == get_val(raw, path_to_tecnai, None)
        hs == stage(process_hs_data_rules(m), initial_em(raw))
        general == stage(dm3_general_mapping(raw), dm3_software_name(raw, hs))
        eels == stage(dm3_eels_mapping(raw), general)
        tecnai == IF found = NoneNode THEN eels
                  ELSE stage(dm3_tecnai_mapping(Split(found.s, delimiter)), eels)
        eds == stage(dm3_eds_mapping(raw), tecnai)
    IN  remove_empty(non_hs_data(raw, eds))

\* the exception it raises, "" when it returns
alone_raised(d) ==
    LET found == get_val(d.original_metadata, path_to_tecnai, None)
    IN  IF found = NoneNode THEN "" ELSE tecnai_exception(Split(found.s, delimiter))

\* the record it returns
alone_record(d) ==
    IF alone_raised(d) # "" THEN NoRecord
    ELSE make_record(alone_em(d), image_metadata(d.original_metadata))

\* the call at pc ended as a call on dataset d alone ends
EndsAsAlone(d) ==
    /\ pc = "done" => raised = "" /\ record = alone_record(d)
    /\ pc = "raised" => raised # "" /\ raised = alone_raised(d)

\* C15: when hs_load yields a list of datasets, the call ends as a call on
\* the first dataset alone ends: same record, and an error only when the
\* first dataset alone raises one; the list itself is no error.
C15_FirstDatasetOnly ==
    (hs_data.is_list /\ pc \in {"done", "raised"}) =>
        EndsAsAlone(hs_data.signals[1])

\* a record returned for a list whose second dataset alone gives another
C15_Witness ==
    /\ pc = "done"
    /\ hs_data.is_list
    /\ Len(hs_data.signals) = 2
    /\ alone_raised(hs_data.signals[2]) = ""
    /\ alone_record(hs_data.signals[2]) # record
    /\ record.keys # {}

\* C16: two calls that run concurrently on one parser, under every
\* interleaving of their steps, each end as they end when run alone.
C16_ConcurrentCallsIsolated ==
    /\ pc \in {"done", "raised"} => EndsAsAlone(hs_data.signals[1])
    /\ other.pc = "done" =>
           other.record = alone_record(other.hs_data.signals[1])
    /\ other.pc = "raised" =>
           other.raised = alone_raised(other.hs_data.signals[1])

---------------------------------------------------------------------------
\* C18: the source trees are read-only.  From the moment a call has decoded
\* its dataset, self.meta and self.raw_meta are the two trees of that
\* dataset, at every stage and after the record is returned, and no rule
\* of any table has a destination below raw_metadata, the branch of the
\* destination tree that is the raw tree itself.
C18_SourceTreesReadOnly ==
    /\ pc # "idle" =>
           /\ meta = hs_first(hs_data).metadata
           /\ raw_meta = hs_first(hs_data).original_metadata
    /\ \A p \in DestPaths : p[1] # "raw_metadata"

\* a finished call on a dataset with both trees non-empty, whose raw tree
\* gave the session microscope to the destination tree
C18_Witness ==
    /\ pc = "done"
    /\ meta # EmptyTree
    /\ ImageTags \o <<"Session Info", "Microscope">> \in DOMAIN raw_meta
    /\ <<"General_EM", "microscope_name">> \in DOMAIN em
    /\ Subtree(em, <<"raw_metadata">>) = hs_first(hs_data).original_metadata

---------------------------------------------------------------------------
\* C19: the accelerating voltage.  Once the vendor tags are processed, a
\* numeric Voltage v of the Microscope Info tags stands in the destination
\* tree as {value: v / 1000, unit: KiloEV} when v >= 1000 (1000 included)
\* and as {value: v, unit: EV} when v < 1000; a Voltage that is missing or
\* is a string that is not a number leaves no accelerating_voltage.
VoltagePath == get_dm3_tag_pre_path(raw_meta) \o <<"Microscope Info", "Voltage">>

accelerating_voltage == <<"General_EM", "accelerating_voltage">>

C19_AcceleratingVoltage ==
    pc \in {"dm3_eels_info", "dm3_tecnai_info", "dm3_eds_info", "non_hs_data",
            "image_metadata", "return", "done"} =>
        IF VoltagePath \in DOMAIN raw_meta /\ raw_meta[VoltagePath].k = "num"
        THEN LET v == raw_meta[VoltagePath].n
             IN  IF v >= 1000 * 1000
                 THEN LeafAt(em, accelerating_voltage)
                          = Leaf(accelerating_voltage, NumNode(v \div 1000), "KiloEV")
                 ELSE LeafAt(em, accelerating_voltage)
                          = Leaf(accelerating_voltage, NumNode(v), "EV")
        ELSE (VoltagePath \notin DOMAIN raw_meta
                 \/ (raw_meta[VoltagePath].k = "str"
                        /\ ParseFloat(raw_meta[VoltagePath].s) = NoneNode))
             => accelerating_voltage \notin DOMAIN em

\* a returned record whose Voltage tag was exactly 1000
C19_Witness ==
    /\ pc = "done"
    /\ VoltagePath \in DOMAIN raw_meta
    /\ raw_meta[VoltagePath] = Float(1000, 0)
    /\ record.electron_microscopy[accelerating_voltage \o <<"value">>] = Float(1, 0)
    /\ record.electron_microscopy[accelerating_voltage \o <<"unit">>] = StrNode("KiloEV")

\* a returned record whose Voltage tag was just below 1000
C19_WitnessBelow ==
    /\ pc = "done"
    /\ VoltagePath \in DOMAIN raw_meta
    /\ raw_meta[VoltagePath] = Float(999, 999)
    /\ record.electron_microscopy[accelerating_voltage \o <<"unit">>] = StrNode("EV")

---------------------------------------------------------------------------
\* C20: SEM is tested before TEM.  When the structured metadata has both
\* an SEM and a TEM subtree under Acquisition_instrument, the instrument
\* class is SEM, the instrument subtree is the SEM subtree, and Stage A and
\* the returned record are what the same dataset gives with its TEM
\* subtree taken away: no value of the TEM subtree reaches the record.
BothInstruments == {"SEM", "TEM"} \subseteq Keys(meta, <<"Acquisition_instrument">>)

\* tree t without the subtree at path p
Without(t, p) == [q \in {r \in DOMAIN t : ~IsPrefix(p, r)} |-> t[q]]

C20_SEMBeforeTEM ==
    BothInstruments =>
        /\ pc \notin {"idle", "process_hs_data"} =>
               /\ inst = "SEM"
               /\ inst_data = <<Subtree(meta, SEM)>>
        /\ pc = "dm3_general_info" =>
               em = map_dict_values(process_hs_data_rules(Without(meta, TEM)),
                                    initial_em(raw_meta))
        /\ pc = "done" =>
               record = alone_record([metadata |-> Without(meta, TEM),
                                      original_metadata |-> raw_meta])

\* a returned record for a dataset with both subtrees, each naming a
\* microscope: the record names the one of the SEM subtree
C20_Witness ==
    /\ pc = "done"
    /\ BothInstruments
    /\ LeafAt(meta, TEM \o <<"microscope">>) = Leaf(TEM \o <<"microscope">>, StrNode("JEOL"), None)
    /\ LeafAt(meta, SEM \o <<"microscope">>) = Leaf(SEM \o <<"microscope">>, StrNode("Quanta"), None)
    /\ record.electron_microscopy[<<"General_EM", "microscope_name">>] = StrNode("Quanta")

---------------------------------------------------------------------------
\* C21: no instrument without SEM or TEM.  When Acquisition_instrument has
\* neither an SEM nor a TEM key, whatever other keys it has, Stage A writes
\* the General fields and the elements list of the structured metadata and
\* nothing else: no instrument field and no detector field.
NoInstrument == Keys(meta, <<"Acquisition_instrument">>) \cap {"SEM", "TEM"} = {}

C21_NoInstrumentNoFields ==
    (pc = "dm3_general_info" /\ NoInstrument) =>
        em = map_dict_values(hs_general_mapping(meta), initial_em(raw_meta))

\* the same with no key spelled None either: this much holds
C21_UnlessKeyNone ==
    (pc = "dm3_general_info" /\ NoInstrument
        /\ "None" \notin Keys(meta, <<"Acquisition_instrument">>)) =>
        em = map_dict_values(hs_general_mapping(meta), initial_em(raw_meta))

\* Stage A has run on a dataset with a title and no instrument keys
C21_Witness ==
    /\ pc = "dm3_general_info"
    /\ NoInstrument
    /\ <<"General", "title">> \in DOMAIN em

---------------------------------------------------------------------------
\* C22: one root for every vendor read.  When the raw tree has the stack
\* tag 'plane info' under ImageTags, every vendor read is made below the
\* root 'plane info'/TagGroup0/'source tags' and none below the plain
\* ImageTags root: the tags outside 'plane info' are not read, so the
\* returned record, its copy of the raw tree aside, is the one the dataset
\* gives with those tags taken away.
PlaneInfo == ImageTags \o <<"plane info">>

IsStack == get_val(raw_meta, PlaneInfo, None) # NoneNode

\* the raw tree without the tags of ImageTags that are outside 'plane info'
StackOnly(raw) ==
    [q \in {r \in DOMAIN raw : IsPrefix(ImageTags, r) /\ Len(r) > Len(ImageTags)
                                    => IsPrefix(PlaneInfo, r)} |-> raw[q]]

C22_OneTagRoot ==
    (pc = "done" /\ IsStack) =>
        Without(record.electron_microscopy, <<"raw_metadata">>)
            = Without(alone_record([metadata |-> meta,
                                    original_metadata |-> StackOnly(raw_meta)]).electron_microscopy,
                      <<"raw_metadata">>)

\* the rule tables of the general, EELS and EDS stages read below the
\* selected root only: this much holds
C22_RuleTablesUseRoot ==
    pc # "idle" =>
        LET rules == dm3_general_mapping(raw_meta) \o dm3_eels_mapping(raw_meta)
                         \o dm3_eds_mapping(raw_meta)
        IN  \A i \in 1..Len(rules) :
                IsPrefix(get_dm3_tag_pre_path(raw_meta), rules[i].source_path)

---------------------------------------------------------------------------
\* C23: the acquisition software name.  From the general vendor stage on,
\* and in the returned record, General_EM.acquisition_software_name is the
\* literal 'DigitalMicrograph' exactly when the raw tree has the plain root
\* ImageList.TagGroup0.ImageTags, and is absent otherwise; no later stage
\* replaces it.
acquisition_software_name == <<"General_EM", "acquisition_software_name">>

HasSoftwareName(t) ==
    /\ acquisition_software_name \in DOMAIN t
    /\ t[acquisition_software_name] = StrNode("DigitalMicrograph")

C23_SoftwareNameAtPlainRoot ==
    /\ pc \in {"dm3_eels_info", "dm3_tecnai_info", "dm3_eds_info", "non_hs_data",
               "image_metadata", "return"} =>
           IF get_val(raw_meta, ImageTags, None) # NoneNode
           THEN HasSoftwareName(em)
           ELSE acquisition_software_name \notin DOMAIN em
    /\ pc = "done" =>
           IF get_val(raw_meta, ImageTags, None) # NoneNode
           THEN HasSoftwareName(record.electron_microscopy)
           ELSE acquisition_software_name \notin DOMAIN record.electron_microscopy

\* the statement with the root selected for the run in the place of the
\* plain root
C23_SoftwareNameAtSelectedRoot ==
    pc = "done" =>
        IF get_val(raw_meta, get_dm3_tag_pre_path(raw_meta), None) # NoneNode
        THEN HasSoftwareName(record.electron_microscopy)
        ELSE acquisition_software_name \notin DOMAIN record.electron_microscopy

\* a returned record with the name, for a stack file whose 'plane info'
\* has no 'source tags' below it
C23_Witness ==
    /\ pc = "done"
    /\ IsStack
    /\ get_val(raw_meta, get_dm3_tag_pre_path(raw_meta), None) = NoneNode
    /\ HasSoftwareName(record.electron_microscopy)

---------------------------------------------------------------------------
\* C24: defocus from the free-text block.  Of the two expressions tried in
\* order on the Mode line, the first that matches and casts to a float
\* supplies TEM.defocus in the returned record: when both do, the value of
\* the first is the one returned.
DefocusMagn == extract_val(Regex("Defocus (um) ", "any", " Magn"), ModeLine(TecnaiLines))

DefocusCL == extract_val(Regex("Defocus ", "digits_dots", " CL"), ModeLine(TecnaiLines))

\* float(v) of a match, NoneNode without a match or without a float
AsFloat(v) == IF v = NoneNode THEN NoneNode ELSE ParseFloat(v.s)

\* TEM.defocus of the record is {value: v, unit: MicroM}
DefocusIs(v) ==
    LeafAt(record.electron_microscopy, <<"TEM", "defocus">>)
        = Leaf(<<"TEM", "defocus">>, v, "MicroM")

C24_FirstDefocusWins ==
    (pc = "done" /\ HasTecnai) =>
        IF AsFloat(DefocusMagn) # NoneNode THEN DefocusIs(AsFloat(DefocusMagn))
        ELSE AsFloat(DefocusCL) # NoneNode => DefocusIs(AsFloat(DefocusCL))

\* what holds: the second expression wins when both match, each rule
\* replacing what is there
C24_LastDefocusWins ==
    (pc = "done" /\ HasTecnai) =>
        IF AsFloat(DefocusCL) # NoneNode THEN DefocusIs(AsFloat(DefocusCL))
        ELSE AsFloat(DefocusMagn) # NoneNode => DefocusIs(AsFloat(DefocusMagn))

\* a returned record for a Mode line that both expressions match
C24_BothMatch ==
    /\ pc = "done"
    /\ HasTecnai
    /\ DefocusMagn = StrNode("1.0")
    /\ DefocusCL = StrNode("2.5")
    /\ DefocusIs(Float(2, 500))

---------------------------------------------------------------------------
\* C25: the location of the spectrometer block.  The block under
\* EELS/Acquisition/Spectrometer is used when it is present, otherwise the
\* block under 'EELS Spectrometer'; when the first is present nothing is
\* read from the second, so the returned record, its copy of the raw tree
\* aside, is the one the dataset gives with the second block taken away,
\* and a field the first block lacks is not filled from the second.
SpectrometerBlock == get_dm3_tag_pre_path(raw_meta) \o <<"EELS", "Acquisition", "Spectrometer">>

OtherBlock == get_dm3_tag_pre_path(raw_meta) \o <<"EELS Spectrometer">>

C25_OneSpectrometerBlock ==
    (pc = "done" /\ SpectrometerBlock \in DOMAIN raw_meta) =>
        Without(record.electron_microscopy, <<"raw_metadata">>)
            = Without(alone_record([metadata |-> meta,
                                    original_metadata |-> Without(raw_meta, OtherBlock)]).electron_microscopy,
                      <<"raw_metadata">>)

\* a returned record for a raw tree with both blocks, the aperture label
\* in the second only: the dispersion of the first block is returned and
\* no aperture size
C25_Witness ==
    /\ pc = "done"
    /\ SpectrometerBlock \o <<"Dispersion (eV/ch)">> \in DOMAIN raw_meta
    /\ OtherBlock \o <<"Aperture label">> \in DOMAIN raw_meta
    /\ <<"EELS", "dispersion_per_channel">> \in DOMAIN record.electron_microscopy
    /\ <<"EELS", "aperture_size">> \notin DOMAIN record.electron_microscopy

\* a returned record for a raw tree with the second block only: its
\* aperture label is returned
C25_WitnessOther ==
    /\ pc = "done"
    /\ SpectrometerBlock \notin DOMAIN raw_meta
    /\ OtherBlock \o <<"Aperture label">> \in DOMAIN raw_meta
    /\ LeafAt(record.electron_microscopy, <<"EELS", "aperture_size">>)
           = Leaf(<<"EELS", "aperture_size">>, Float(2, 500), "MilliM")

---------------------------------------------------------------------------
\* C26: the free-text stage and the EDS stage commute.  No destination of
\* a free-text rule is a destination of an EDS rule, or above or below
\* one, and the returned record is the record that the same dataset gives
\* when _dm3_eds_info is called before _dm3_tecnai_info.
TecnaiDest ==
    LET rules == dm3_tecnai_mapping(Split(TecnaiImaging, delimiter))
                     \o dm3_tecnai_mapping(Split(TecnaiDiffraction, delimiter))
    IN  {rules[i].dest_path : i \in 1..Len(rules)}

EdsDest ==
    LET rules == dm3_eds_mapping(EmptyTree)
    IN  {rules[i].dest_path : i \in 1..Len(rules)}

\* the destination tree with the EDS stage before the free-text stage
eds_first_em(d) ==
    LET m == d.metadata
        raw == d.original_metadata
        found == get_val(raw, path_to_tecnai, None)
        hs == stage(process_hs_data_rules(m), initial_em(raw))
        general == stage(dm3_general_mapping(raw), dm3_software_name(raw, hs))
        eels == stage(dm3_eels_mapping(raw), general)
        eds == stage(dm3_eds_mapping(raw), eels)
        tecnai == IF found = NoneNode THEN eds
                  ELSE stage(dm3_tecnai_mapping(Split(found.s, delimiter)), eds)
    IN  remove_empty(non_hs_data(raw, tecnai))

C26_TecnaiEdsCommute ==
    /\ \A p \in TecnaiDest, q \in EdsDest : ~IsPrefix(p, q) /\ ~IsPrefix(q, p)
    /\ pc = "done" =>
           record = make_record(eds_first_em(hs_first(hs_data)),
                                image_metadata(raw_meta))

\* a returned record in which both stages wrote: the filter dispersion of
\* the free-text block and the dispersion of the EDS tags
C26_Witness ==
    /\ pc = "done"
    /\ HasTecnai
    /\ <<"EELS", "dispersion_per_channel">> \in DOMAIN record.electron_microscopy
    /\ <<"EDS", "dispersion_per_channel">> \in DOMAIN record.electron_microscopy

====
